---------------------------- MODULE Spec2Model ----------------------------
(***************************************************************************)
(* The chunked, resumable upload coordinator (UploadManager) of            *)
(* src/MUI_V1/expandable_eye_rail_mui_data_grid_community.jsx.             *)
(*                                                                         *)
(* uploads     the React state: every setUploads(updater) is applied to it *)
(*             in the order the calls are made (updaters are functions of  *)
(*             the previous state, so applying them at once or at the next *)
(*             render gives the same value).                               *)
(* uploadsRef  uploadsRef.current: the copy the asynchronous code reads.   *)
(*             It is refreshed by the effect of lines 820-849, that is     *)
(*             when React commits a render (action Commit), not when       *)
(*             setUploads is called.                                       *)
(* dirty       a render is pending (setUploads was called since the last   *)
(*             commit).                                                    *)
(* store       localStorage[PERSIST_KEY], parsed.                          *)
(* runs        the invocations of startFileUpload, each with its position  *)
(*             (the await it is suspended at) and its local variables.     *)
(* srv         the backend's multipart session of each file: the part      *)
(*             numbers it has stored.                                      *)
(* inbox       the files the user has not dropped yet.                     *)
(* clicks, faults, reloads   what is left of the budgets that bound the    *)
(*             user's actions, the injected failures and the page reloads. *)
(* plan        inputs and results of the calls of a pure function (one     *)
(*             buildChunks call in SpecPlan, the statusLabel calls of the  *)
(*             rendered rows in SpecLabel, the loop of buildChunks,        *)
(*             iteration by iteration, in SpecLoop).                       *)
(* pushed      the snacks that the last drop on the dropzone or the last   *)
(*             file selection pushed on the snack queue (the snacks of the *)
(*             other handlers are left out).                               *)
(* picker      the records for which recoverMissingFile has opened a file  *)
(*             selection that the user has not answered yet.               *)
(* chosen      the last answer to a file selection, <<[id, file]>>, or     *)
(*             << >> when none was given on this page.                     *)
(* deletes     for each session, the number of DELETE requests             *)
(*             (apiAbortUpload) sent for it so far.                        *)
(*                                                                         *)
(* Scheduling.  The browser runs one task at a time.  A handler that       *)
(* resumes from a network call, a timer or a user event runs in a task of  *)
(* its own, after the render that earlier setUploads calls scheduled       *)
(* (guard Quiet).  A continuation that follows an await with nothing to    *)
(* wait for (positions "chunks" and "finalize") is a microtask: nothing    *)
(* but such continuations can run before it, and whether the commit has    *)
(* refreshed uploadsRef by then is left open (Commit may or may not come   *)
(* first).                                                                 *)
(*                                                                         *)
(* Sizes are counted in abstract units; an etag and a last-modified time   *)
(* are numbers, with Undefined for JavaScript's undefined/null.            *)
(***************************************************************************)
EXTENDS Integers, Sequences, FiniteSets, TLC

VARIABLES uploads, uploadsRef, dirty, store, runs, srv, inbox,
          clicks, faults, reloads, plan, pushed, picker, chosen, deletes

vars == <<uploads, uploadsRef, dirty, store, runs, srv, inbox,
          clicks, faults, reloads, plan, pushed, picker, chosen, deletes>>

-----------------------------------------------------------------------------
(* Program constants (lines 308-321).  Sizes are in units of 1 MiB.        *)

MAX_FILES == 100
MAX_FILE_SIZE_BYTES == 5120
DEFAULT_CHUNK_SIZE == 10
MAX_PARALLEL_FILES == 3
CHUNK_MAX_RETRIES == 4
BACKOFF_BASE_MS == 800
BACKOFF_JITTER_MS == 250
REQUEST_TIMEOUT_MS == 120000
STALL_TIMEOUT_MS == 30000

Undefined == 0

-----------------------------------------------------------------------------
(* Bounds of the model.                                                    *)

\* buildChunks is explored for sizes 0..PlanMaxSize, chunk sizes
\* 1..PlanMaxChunk, part numbers 1..PlanMaxPart and etags 1..PlanMaxEtag.
PlanMaxSize == 7
PlanMaxChunk == 3
PlanMaxPart == 3
PlanMaxEtag == 2

-----------------------------------------------------------------------------
(* Utilities.                                                              *)

Min(a, b) == IF a < b THEN a ELSE b

Range(s) == {s[k] : k \in 1..Len(s)}

\* partsETags[String(partNumber)]: undefined when the key is absent.
Lookup(partsETags, partNumber) ==
  IF partNumber \in DOMAIN partsETags THEN partsETags[partNumber] ELSE Undefined

RECURSIVE BuildFrom(_, _, _, _, _, _)
BuildFrom(start, index, size, chunkSize, alreadyUploadedParts, partsETags) ==
  IF ~(start < size) THEN << >>
  ELSE LET end == Min(start + chunkSize, size)
           partNumber == index + 1
           uploadedAlready == partNumber \in alreadyUploadedParts
       IN  << [index |-> index, start |-> start, end |-> end,
               uploaded |-> uploadedAlready,
               etag |-> IF uploadedAlready THEN Lookup(partsETags, partNumber)
                        ELSE Undefined] >>
           \o BuildFrom(start + chunkSize, index + 1, size, chunkSize,
                        alreadyUploadedParts, partsETags)

\* A plausible bug of buildChunks: the end of a chunk is not clamped to the
\* file size.
BuildFromUnclamped(size, chunkSize, alreadyUploadedParts, partsETags) ==
  LET n == IF size = 0 THEN 0 ELSE ((size - 1) \div chunkSize) + 1
  IN  [k \in 1..n |->
         [index |-> k - 1, start |-> (k - 1) * chunkSize, end |-> k * chunkSize,
          uploaded |-> k \in alreadyUploadedParts,
          etag |-> IF k \in alreadyUploadedParts THEN Lookup(partsETags, k)
                   ELSE Undefined]]

\* A plausible bug of buildChunks: the part number is taken to be the chunk
\* index (0-based) instead of index + 1.
BuildFromZeroBased(size, chunkSize, alreadyUploadedParts, partsETags) ==
  LET fresh == BuildFrom(0, 0, size, chunkSize, {}, << >>)
  IN  [k \in 1..Len(fresh) |->
         [fresh[k] EXCEPT
            !.uploaded = (k - 1) \in alreadyUploadedParts,
            !.etag = IF (k - 1) \in alreadyUploadedParts
                     THEN Lookup(partsETags, k - 1) ELSE Undefined]]

buildChunks(size, chunkSize, alreadyUploadedParts, partsETags) ==
  BuildFrom(0, 0, size, chunkSize, alreadyUploadedParts, partsETags)


-----------------------------------------------------------------------------
(* Records (UploadFileMeta, lines 344-363).  file is << >> (undefined) or  *)
(* <<f>> with f a File [name, size, lastModified]; progress is the         *)
(* fraction n/d (d = 0: NaN); an error, uploadId or fileUrl "" is          *)
(* undefined; controller is Undefined (null) or the run whose              *)
(* AbortController it holds.                                               *)

Pct(bytes, size) == [n |-> bytes * 100, d |-> size]

Pct0 == [n |-> 0, d |-> 1]

Pct100 == [n |-> 100, d |-> 1]

NewRecord(id, file) ==
  [id |-> id, file |-> <<file>>, fileName |-> file.name, fileSize |-> file.size,
   fileLastModified |-> file.lastModified, status |-> "queued",
   progress |-> Pct0, uploadedBytes |-> 0, uploadId |-> "",
   chunkSize |-> DEFAULT_CHUNK_SIZE, chunks |-> << >>, error |-> "",
   controller |-> Undefined, completing |-> FALSE, fileUrl |-> ""]

Ids(list) == {list[k].id : k \in 1..Len(list)}

\* uploadsRef.current.find((u) => u.id === id)
Find(list, id) == list[CHOOSE k \in 1..Len(list) : list[k].id = id]

\* prev.map((u) => (u.id === id ? F(u) : u))
MapRec(list, id, F(_)) ==
  [k \in 1..Len(list) |-> IF list[k].id = id THEN F(list[k]) ELSE list[k]]

\* createUUID(): an id no record of the page or of the snapshot has.
FreshId(list) ==
  LET used == Ids(list) \cup Ids(store) \cup {0}
  IN  1 + (CHOOSE m \in used : \A x \in used : x <= m)

UploadedSum(chunks) ==
  LET RECURSIVE Sum(_)
      Sum(k) == IF k = 0 THEN 0
                ELSE Sum(k - 1) + (IF chunks[k].uploaded
                                   THEN chunks[k].end - chunks[k].start ELSE 0)
  IN  Sum(Len(chunks))

-----------------------------------------------------------------------------
(* Persistence (lines 820-849) and hydration (lines 865-899).              *)

\* A plausible bug of the persistence effect: canceled records are kept.
PersistedWithCanceled(list) ==
  LET keep == SelectSeq(list, LAMBDA u : u.status # "done")
  IN  [k \in 1..Len(keep) |->
         LET u == keep[k]
         IN  [id |-> u.id, fileName |-> u.fileName, fileSize |-> u.fileSize,
              fileLastModified |-> u.fileLastModified,
              status |-> IF u.file # << >> THEN u.status
                         ELSE IF u.status = "done" THEN "done" ELSE "awaiting-file",
              progress |-> IF u.progress.d = 0 THEN Pct0 ELSE u.progress,
              uploadedBytes |-> u.uploadedBytes, uploadId |-> u.uploadId,
              chunkSize |-> u.chunkSize, chunks |-> u.chunks,
              completing |-> u.completing, fileUrl |-> u.fileUrl]]

\* The snapshot written to localStorage: the record without file and
\* controller (and without error).  JSON turns a NaN progress into null.
Persisted(list) ==
  LET keep == SelectSeq(list, LAMBDA u : u.status # "done" /\ u.status # "canceled")
  IN  [k \in 1..Len(keep) |->
         LET u == keep[k]
         IN  [id |-> u.id, fileName |-> u.fileName, fileSize |-> u.fileSize,
              fileLastModified |-> u.fileLastModified,
              status |-> IF u.file # << >> THEN u.status
                         ELSE IF u.status = "done" THEN "done" ELSE "awaiting-file",
              progress |-> IF u.progress.d = 0 THEN Pct0 ELSE u.progress,
              uploadedBytes |-> u.uploadedBytes, uploadId |-> u.uploadId,
              chunkSize |-> u.chunkSize, chunks |-> u.chunks,
              completing |-> u.completing, fileUrl |-> u.fileUrl]]

\* persisted.map(...) of the hydration effect.
Restored(persisted) ==
  [k \in 1..Len(persisted) |->
     LET p == persisted[k]
     IN  [id |-> p.id, file |-> << >>, fileName |-> p.fileName,
          fileSize |-> p.fileSize, fileLastModified |-> p.fileLastModified,
          status |-> "awaiting-file", progress |-> p.progress,
          uploadedBytes |-> p.uploadedBytes, uploadId |-> p.uploadId,
          chunkSize |-> IF p.chunkSize = 0 THEN DEFAULT_CHUNK_SIZE ELSE p.chunkSize,
          chunks |-> p.chunks, error |-> "", controller |-> Undefined,
          completing |-> p.completing, fileUrl |-> p.fileUrl]]

mergeRestored(prev, restored) ==
  prev \o SelectSeq(restored, LAMBDA r : r.id \notin Ids(prev))

\* The two mount effects in the order the component declares them: the
\* persistence effect (with the initial state []) and then the hydration
\* effect, which reads what the first one has just written.
\* Result: the store and the records after the mount.
MountEffects(stored) ==
  LET initial == << >>
      written == Persisted(initial)
      restored == Restored(written)
  IN  [store |-> written,
       uploads |-> IF Len(restored) > 0 THEN mergeRestored(initial, restored)
                   ELSE initial]

-----------------------------------------------------------------------------
(* User actions (lines 906-1000), as the updaters they pass to setUploads. *)

\* A plausible bug of the placeholder test: the size is not compared.
MatchesPlaceholderByName(u, file) ==
  /\ u.status = "awaiting-file"
  /\ u.fileName = file.name
  /\ (u.fileLastModified # Undefined => u.fileLastModified = file.lastModified)

\* The test of next.findIndex (lines 922-930).
MatchesPlaceholder(u, file) ==
  /\ u.status = "awaiting-file"
  /\ u.fileName = file.name
  /\ u.fileSize = file.size
  /\ (u.fileLastModified # Undefined => u.fileLastModified = file.lastModified)

RECURSIVE addFilesToQueue(_, _)
addFilesToQueue(prev, files) ==
  IF files = << >> THEN prev
  ELSE LET file == Head(files)
           match == {k \in 1..Len(prev) : MatchesPlaceholder(prev[k], file)}
       IN  IF Len(prev) >= MAX_FILES THEN prev
           ELSE IF file.size > MAX_FILE_SIZE_BYTES
             THEN addFilesToQueue(prev, Tail(files))
           ELSE IF match # {}
             THEN LET idx == CHOOSE k \in match : \A j \in match : k <= j
                  IN  addFilesToQueue(
                        [prev EXCEPT ![idx] =
                           [@ EXCEPT !.file = <<file>>, !.status = "queued",
                                     !.error = "",
                                     !.fileLastModified = file.lastModified]],
                        Tail(files))
           ELSE addFilesToQueue(Append(prev, NewRecord(FreshId(prev), file)),
                                Tail(files))

\* A snack of the queue (push, lines 534-536): severity and the file that
\* the message names ("" when it names none).
Snack(severity, name) == [severity |-> severity, file |-> name]

\* The snacks the loop of addFilesToQueue pushes: one warning when the
\* limit stops the loop, an error for a file over the size limit, an info
\* for a file attached to an awaiting-file record.
RECURSIVE Pushes(_, _)
Pushes(prev, files) ==
  IF files = << >> THEN << >>
  ELSE LET file == Head(files)
           next == addFilesToQueue(prev, <<file>>)
       IN  IF Len(prev) >= MAX_FILES THEN <<Snack("warning", "")>>
           ELSE IF file.size > MAX_FILE_SIZE_BYTES
             THEN <<Snack("error", file.name)>> \o Pushes(prev, Tail(files))
           ELSE IF Len(next) = Len(prev)
             THEN <<Snack("info", file.name)>> \o Pushes(next, Tail(files))
           ELSE Pushes(next, Tail(files))

\* A plausible bug of recoverMissingFile: the size is not compared.
RecoverByNameOnly(u, f) ==
  IF u.fileName # f.name THEN u
  ELSE [u EXCEPT !.file = <<f>>, !.fileLastModified = f.lastModified,
                 !.status = "queued", !.error = ""]

\* A plausible bug of the updater: the chosen file is not attached.
recoverMissingFileStatusOnly(u, f) ==
  IF u.fileName # f.name \/ u.fileSize # f.size THEN u
  ELSE [u EXCEPT !.fileLastModified = f.lastModified,
                 !.status = "queued", !.error = ""]

\* The updater of recoverMissingFile (lines 1013-1026), for the target.
recoverMissingFile(u, f) ==
  IF u.fileName # f.name \/ u.fileSize # f.size THEN u
  ELSE [u EXCEPT !.file = <<f>>, !.fileLastModified = f.lastModified,
                 !.status = "queued", !.error = ""]

pauseUpload(u) ==
  [u EXCEPT !.controller = Undefined,
            !.status = IF u.status = "done" THEN "done" ELSE "paused"]

resumeUpload(u) ==
  IF u.status # "done" THEN [u EXCEPT !.status = "queued", !.error = ""] ELSE u

cancelUpload(u) ==
  [u EXCEPT !.status = "canceled", !.controller = Undefined]

\* UploadRow's canPause, canResume, canCancel (lines 597-602), on the record
\* as rendered.
canPause(u) == u.status = "uploading" /\ ~u.completing

canResume(u) == u.status \in {"paused", "error", "queued"} /\ ~u.completing

canCancel(u) == u.status # "done" /\ u.status # "canceled" /\ ~u.completing

-----------------------------------------------------------------------------
(* Runs of startFileUpload (lines 1053-1110).                              *)
(*   pc       "init"      awaiting apiInitiateUpload      (line 1129),     *)
(*                        the request on its way to the backend            *)
(*            "initiated" awaiting apiInitiateUpload, the response (with   *)
(*                        the parts the backend held, in parts and etags,  *)
(*                        and the backend's admission, in reply) on its    *)
(*                        way back                                         *)
(*            "chunks"    ensureUploadSession returned; about to enter     *)
(*                        uploadChunksSequentiallyWithRetry (line 1062)    *)
(*            "parturl"   awaiting apiGetPartUrl          (line 1214)      *)
(*            "put"       awaiting axios.put              (line 1238)      *)
(*            "backoff"   awaiting sleep(delay)           (line 1334)      *)
(*            "finalize"  the chunk loop returned; about to enter          *)
(*                        finalizeUpload                  (line 1063)      *)
(*            "complete"  awaiting apiCompleteUpload      (line 1360);     *)
(*                        sent is the parts list of the request            *)
(*            "end"       startFileUpload has returned                     *)
(*   i, attempt, chunkMeta, uploadedBytesBefore, lastErr   the locals of   *)
(*            the chunk loop (lastErr as the kind of the error, "" for     *)
(*            null); loaded is evt.loaded of the last progress event       *)
(*   req      the part number of the part-url request in flight            *)
(*   url      the presigned url of the attempt (the const of line 1214):   *)
(*            the part number it was issued for and the ordinal, among     *)
(*            the chunk's requests, of the request that returned it        *)
(*   delay    the argument of the sleep in progress, in milliseconds       *)
(*   tries, fails, sleeps   counters of the current chunk: the passes      *)
(*            through the try block (line 1213), through the catch block   *)
(*            (line 1310) and the calls of sleep (line 1334); an ended run *)
(*            keeps those of its last chunk                                *)
(*   elapsed, idle   milliseconds since the watchdogs of the attempt were  *)
(*            armed and since lastProgressAt (line 1220); they advance     *)
(*            only in the specification that has a clock                   *)
(*   stallTimers, hardTimers   the stall intervals (line 1222) and the     *)
(*            hard timeouts (line 1229) that the run has set and that are  *)
(*            neither cleared nor, for a timeout, fired                    *)
(*   aborted  signal.aborted of the run's file-level AbortController       *)
(*            (line 1187), which pauseUpload and cancelUpload abort        *)
(*   result   how the run ended: "done", "error" (the catch block set the  *)
(*            status) or "user" (the catch block returned: paused or       *)
(*            canceled); err is the message of the error thrown            *)

NoChunk == [index |-> 0, start |-> 0, end |-> 0]

NoUrl == [partNumber |-> 0, request |-> 0]

NewRun(id, pc) ==
  [id |-> id, pc |-> pc, i |-> 0, attempt |-> 0, chunkMeta |-> NoChunk,
   uploadedBytesBefore |-> 0, loaded |-> 0, aborted |-> FALSE,
   lastErr |-> "", parts |-> {}, etags |-> << >>, reply |-> "",
   sent |-> << >>, req |-> 0, url |-> NoUrl, delay |-> 0,
   tries |-> 0, fails |-> 0, sleeps |-> 0, elapsed |-> 0, idle |-> 0,
   stallTimers |-> 0, hardTimers |-> 0, result |-> "", err |-> ""]

EndRun(run, result, err) ==
  [NewRun(run.id, "end") EXCEPT !.result = result, !.err = err,
                                !.lastErr = run.lastErr, !.reply = run.reply,
                                !.tries = run.tries, !.fails = run.fails,
                                !.sleeps = run.sleeps,
                                !.stallTimers = run.stallTimers,
                                !.hardTimers = run.hardTimers]

Live(r) == runs[r].pc # "end"

MicroReady(r) == runs[r].pc \in {"chunks", "finalize"}

\* No render is pending and no continuation is waiting in the microtask
\* queue: the next task (a response, a timer, a user event) can run.
Quiet == ~dirty /\ \A r \in 1..Len(runs) : ~MicroReady(r)

\* The microtask queue is first in, first out.
FirstMicro(r) == MicroReady(r) /\ \A q \in 1..(r - 1) : ~MicroReady(q)

\* The backend's answers.  One multipart session per file name; its id and
\* the final url are derived from the name; the etag of part p is p.
SessionId(fileName) == fileName

FileUrl(uploadId) == uploadId

Etag(partNumber) == partNumber

ServerChunkSize == 2

\* Errors a backend call can end with: [isAxios, status, message].
Failure(kind) ==
  CASE kind = "http500" -> [isAxios |-> TRUE, status |-> 500,
                             message |-> "Request failed with status code 500"]
    [] kind = "http400" -> [isAxios |-> TRUE, status |-> 400,
                             message |-> "Request failed with status code 400"]
    [] kind = "http403" -> [isAxios |-> TRUE, status |-> 403,
                             message |-> "Request failed with status code 403"]
    [] kind = "http404" -> [isAxios |-> TRUE, status |-> 404,
                             message |-> "Request failed with status code 404"]
    [] kind = "http408" -> [isAxios |-> TRUE, status |-> 408,
                             message |-> "Request failed with status code 408"]
    [] kind = "http429" -> [isAxios |-> TRUE, status |-> 429,
                             message |-> "Request failed with status code 429"]
    [] kind = "network" -> [isAxios |-> TRUE, status |-> 0,
                             message |-> "Network Error"]
    [] kind = "stall"   -> [isAxios |-> TRUE, status |-> 0, message |-> "canceled"]
    [] kind = "timeout" -> [isAxios |-> TRUE, status |-> 0, message |-> "canceled"]
    [] kind = "noetag"  -> [isAxios |-> FALSE, status |-> 0,
                             message |-> "Missing ETag from storage response"]

HttpFailures ==
  {"http500", "http400", "http403", "http404", "http408", "http429", "network"}

PutFailures == HttpFailures \cup {"stall", "timeout", "noetag"}

\* A plausible bug of the classification: 403 (an expired presigned URL) is
\* taken for a permanent rejection.
RetriableExcept403(kind) ==
  LET err == Failure(kind)
  IN  \/ kind \in {"stall", "timeout"}
      \/ ~err.isAxios
      \/ err.status = 0
      \/ err.status >= 500
      \/ err.status = 429
      \/ err.status = 408

\* A plausible bug of the classification: an error that is no AxiosError
\* (the missing etag) is taken for a permanent one.
RetriableAxiosOnly(kind) ==
  LET err == Failure(kind)
  IN  \/ kind \in {"stall", "timeout"}
      \/ err.isAxios /\ (\/ err.status = 0
                         \/ err.status >= 500
                         \/ err.status \in {429, 408, 403})

\* The classification of lines 1316-1324.
retriable(kind) ==
  LET err == Failure(kind)
      didStall == kind = "stall"
      didTimeout == kind = "timeout"
  IN  \/ didStall
      \/ didTimeout
      \/ ~err.isAxios
      \/ err.status = 0
      \/ err.status >= 500
      \/ err.status = 429
      \/ err.status = 408
      \/ err.status = 403

\* The retry decision of line 1326: TRUE when the error is thrown.
\* A plausible bug: one attempt too many (attempt > CHUNK_MAX_RETRIES).
GivesUpLate(attempt, kind) == attempt > CHUNK_MAX_RETRIES \/ ~retriable(kind)

GivesUp(attempt, kind) == attempt >= CHUNK_MAX_RETRIES \/ ~retriable(kind)

\* A plausible bug of the catch block: wasPaused and wasCanceled are not
\* consulted.
CatchIgnoresNothing(id) == FALSE

\* The catch block of startFileUpload (lines 1082-1109) as an updater of the
\* record list: nothing for a record uploadsRef shows paused or canceled.
CatchIgnores(id) == Find(uploadsRef, id).status \in {"paused", "canceled"}

\* A plausible bug of the catch block: the updater does not test the id.
CatchMarksAll(list, id, msg) ==
  IF CatchIgnores(id) THEN list
  ELSE [k \in 1..Len(list) |->
          [list[k] EXCEPT !.status = "error",
                          !.error = IF msg = "" THEN "Upload failed" ELSE msg,
                          !.controller = Undefined, !.completing = FALSE]]

Catch(list, id, msg) ==
  IF CatchIgnores(id) THEN list
  ELSE MapRec(list, id,
         LAMBDA u : [u EXCEPT !.status = "error",
                              !.error = IF msg = "" THEN "Upload failed" ELSE msg,
                              !.controller = Undefined, !.completing = FALSE])

CatchResult(id) == IF CatchIgnores(id) THEN "user" ELSE "error"

\* The head of the chunk loop from index i on (lines 1193-1201), reading the
\* record meta of uploadsRef: the index of the next chunk to send, -1 when
\* the loop is over, -2 when it throws "canceled".
RECURSIVE LoopHead(_, _)
LoopHead(meta, i) ==
  IF ~(i < Len(meta.chunks)) THEN -1
  ELSE IF meta.status = "paused" \/ meta.status = "canceled" THEN -2
  ELSE IF meta.chunks[i + 1].uploaded THEN LoopHead(meta, i + 1)
  ELSE i

\* The run after the loop head has run from index i on.
AfterLoopHead(run, meta, i) ==
  LET n == LoopHead(meta, i)
  IN  IF n = -1 THEN [run EXCEPT !.pc = "finalize", !.lastErr = "", !.url = NoUrl]
      ELSE IF n = -2
        THEN EndRun([run EXCEPT !.lastErr = ""], CatchResult(run.id), "canceled")
      ELSE [run EXCEPT !.pc = "parturl", !.i = n, !.attempt = 0, !.loaded = 0,
                       !.lastErr = "", !.req = meta.chunks[n + 1].index + 1,
                       !.url = NoUrl, !.tries = 1, !.fails = 0, !.sleeps = 0,
                       !.chunkMeta = [index |-> meta.chunks[n + 1].index,
                                      start |-> meta.chunks[n + 1].start,
                                      end |-> meta.chunks[n + 1].end]]

-----------------------------------------------------------------------------
(* The render commit: the persistence effect (lines 820-849) and then the  *)
(* promotion effect (lines 1038-1050), which calls startFileUpload for the *)
(* records it promotes.  startFileUpload sets the status and runs          *)
(* ensureUploadSession up to its first await (lines 1054-1129).            *)

\* ensureUploadSession up to its first await, for the record meta that
\* uploadsRef holds: where the run is suspended next.
EnsurePrefix(meta) ==
  IF meta.file = << >> /\ meta.status # "awaiting-file" THEN "throw"
  ELSE IF meta.uploadId # "" /\ Len(meta.chunks) > 0 THEN "chunks"
  ELSE "init"

\* A plausible bug of the promotion effect: the uploads already running are
\* not counted.
CapacityIgnoringActive(current) == MAX_PARALLEL_FILES

Capacity(current) ==
  MAX_PARALLEL_FILES
    - Cardinality({k \in 1..Len(current) : current[k].status = "uploading"})

\* A plausible bug of the promotion effect: the queued records are taken
\* from the end of the list (slice(-capacity)).
NextToStartFromEnd(current) ==
  LET queued == {k \in 1..Len(current) :
                   current[k].status = "queued" /\ current[k].file # << >>}
      capacity == Capacity(current)
  IN  IF capacity <= 0 THEN {}
      ELSE {k \in queued : Cardinality({j \in queued : j > k}) < capacity}

\* current.filter(queued with a file).slice(0, capacity), as positions.
NextToStart(current) ==
  LET queued == {k \in 1..Len(current) :
                   current[k].status = "queued" /\ current[k].file # << >>}
      capacity == Capacity(current)
  IN  IF capacity <= 0 THEN {}
      ELSE {k \in queued : Cardinality({j \in queued : j < k}) < capacity}

\* The runs the promotion effect starts, in list order.
RECURSIVE StartedRuns(_, _, _)
StartedRuns(current, promoted, k) ==
  IF k > Len(current) THEN << >>
  ELSE (IF k \in promoted
          THEN IF EnsurePrefix(current[k]) = "throw"
               THEN << EndRun(NewRun(current[k].id, "end"), "error",
                              "File not available (needs user to reselect)") >>
               ELSE << NewRun(current[k].id, EnsurePrefix(current[k])) >>
          ELSE << >>)
       \o StartedRuns(current, promoted, k + 1)

Commit ==
  /\ dirty
  /\ LET current == uploads
         promoted == NextToStart(current)
     IN  /\ uploadsRef' = current
         /\ store' = Persisted(current)
         /\ uploads' = [k \in 1..Len(current) |->
                          IF k \notin promoted THEN current[k]
                          ELSE IF EnsurePrefix(current[k]) = "throw"
                            THEN [current[k] EXCEPT
                                    !.status = "error",
                                    !.error = "File not available (needs user to reselect)",
                                    !.controller = Undefined, !.completing = FALSE]
                          ELSE [current[k] EXCEPT !.status = "uploading", !.error = ""]]
         /\ runs' = runs \o StartedRuns(current, promoted, 1)
         /\ dirty' = (promoted # {})
  /\ UNCHANGED <<chosen, deletes, picker, pushed, srv, inbox, clicks, faults, reloads, plan>>

-----------------------------------------------------------------------------
(* User events.                                                            *)

\* The size test of the dropzone (maxSize: MAX_FILE_SIZE_BYTES, line 776):
\* the library rejects a file larger than maxSize as "file-too-large".
FileTooLarge(f) == f.size > MAX_FILE_SIZE_BYTES

\* The user drops the first n files of the inbox on the dropzone (onDrop,
\* lines 752-770, then addFilesToQueue).  The dropzone is disabled while
\* the rendered list has MAX_FILES records.
Enqueue(n) ==
  /\ Quiet
  /\ n \in 1..Len(inbox)
  /\ Len(uploadsRef) < MAX_FILES
  /\ LET dropped == SubSeq(inbox, 1, n)
         acceptedFiles == SelectSeq(dropped, LAMBDA f : ~FileTooLarge(f))
         fileRejections == SelectSeq(dropped, FileTooLarge)
     IN  /\ uploads' = IF acceptedFiles # << >>
                       THEN addFilesToQueue(uploads, acceptedFiles)
                       ELSE uploads
         /\ dirty' = (acceptedFiles # << >>)
         /\ pushed' = [k \in 1..Len(fileRejections) |->
                         Snack("error", fileRejections[k].name)]
                      \o Pushes(uploads, acceptedFiles)
  /\ inbox' = SubSeq(inbox, n + 1, Len(inbox))
  /\ UNCHANGED <<chosen, deletes, picker, uploadsRef, store, runs, srv, clicks, faults, reloads, plan>>

\* A backend call ends with outcome "ok" or with a failure, which uses up
\* one of the failures the scenario allows.
Outcomes(failures) == {"ok"} \cup (IF faults > 0 THEN failures ELSE {})

Spend(outcome) == faults' = IF outcome = "ok" THEN faults ELSE faults - 1

\* u.controller.abort() of pauseUpload and cancelUpload: the signal of the
\* file-level controller of the run that the record points to.
AbortController(id) ==
  LET c == Find(uploads, id).controller
  IN  [r \in 1..Len(runs) |->
         IF r = c /\ Live(r) THEN [runs[r] EXCEPT !.aborted = TRUE] ELSE runs[r]]

Pause(id) ==
  /\ Quiet
  /\ clicks > 0
  /\ id \in Ids(uploadsRef)
  /\ canPause(Find(uploadsRef, id))
  /\ runs' = AbortController(id)
  /\ uploads' = MapRec(uploads, id, pauseUpload)
  /\ dirty' = TRUE
  /\ clicks' = clicks - 1
  /\ UNCHANGED <<chosen, deletes, picker, pushed, uploadsRef, store, srv, inbox, faults, reloads, plan>>

Resume(id) ==
  /\ Quiet
  /\ clicks > 0
  /\ id \in Ids(uploadsRef)
  /\ canResume(Find(uploadsRef, id))
  /\ uploads' = MapRec(uploads, id, resumeUpload)
  /\ dirty' = TRUE
  /\ clicks' = clicks - 1
  /\ UNCHANGED <<chosen, deletes, picker, pushed, uploadsRef, store, runs, srv, inbox, faults, reloads, plan>>

\* A plausible bug of cancelUpload: the DELETE is sent whether or not the
\* record has a session id.
SendsDeleteAlways(u) == TRUE

\* The test of line 996.
SendsDelete(u) == u.uploadId # ""

\* The Cancel button (lines 991-1000).  cancelUpload also sends the DELETE
\* of the session (apiAbortUpload, lines 511-517) when the record has one:
\* with "ok" the backend drops the parts it holds, with a failure it keeps
\* them and the error is swallowed.
Cancel(id, outcome) ==
  /\ Quiet
  /\ clicks > 0
  /\ id \in Ids(uploadsRef)
  /\ canCancel(Find(uploadsRef, id))
  /\ LET u == Find(uploads, id)
     IN  IF SendsDelete(u)
         THEN /\ outcome \in Outcomes({"http500"})
              /\ deletes' = [deletes EXCEPT ![u.uploadId] = @ + 1]
              /\ srv' = IF outcome = "ok" THEN [srv EXCEPT ![u.fileName] = {}]
                        ELSE srv
              /\ Spend(outcome)
         ELSE /\ outcome = "ok"
              /\ UNCHANGED <<deletes, srv, faults>>
  /\ runs' = AbortController(id)
  /\ uploads' = MapRec(uploads, id, cancelUpload)
  /\ dirty' = TRUE
  /\ clicks' = clicks - 1
  /\ UNCHANGED <<chosen, picker, pushed, uploadsRef, store, inbox, reloads, plan>>

\* "Pause all" (lines 1421-1429): pauseUpload for every record uploadsRef
\* shows uploading.  The button is disabled when no record is active.
PauseAll ==
  /\ Quiet
  /\ clicks > 0
  /\ \E k \in 1..Len(uploads) : uploads[k].status \notin {"canceled", "done"}
  /\ LET ids == {uploadsRef[k].id : k \in {j \in 1..Len(uploadsRef) :
                                              uploadsRef[j].status = "uploading"}}
         aborted == {uploads[k].controller : k \in {j \in 1..Len(uploads) :
                                                     uploads[j].id \in ids}}
     IN  /\ runs' = [r \in 1..Len(runs) |->
                       IF r \in aborted /\ Live(r)
                       THEN [runs[r] EXCEPT !.aborted = TRUE] ELSE runs[r]]
         /\ uploads' = [k \in 1..Len(uploads) |->
                          IF uploads[k].id \in ids THEN pauseUpload(uploads[k])
                          ELSE uploads[k]]
         /\ dirty' = (dirty \/ ids # {})
  /\ clicks' = clicks - 1
  /\ UNCHANGED <<chosen, deletes, picker, pushed, uploadsRef, store, srv, inbox, faults, reloads, plan>>

\* "Resume all" (lines 1434-1446): resumeUpload for every record uploadsRef
\* shows paused, in error or queued.
ResumeAll ==
  /\ Quiet
  /\ clicks > 0
  /\ LET ids == {uploadsRef[k].id : k \in {j \in 1..Len(uploadsRef) :
                     uploadsRef[j].status \in {"paused", "error", "queued"}}}
     IN  /\ uploads' = [k \in 1..Len(uploads) |->
                          IF uploads[k].id \in ids THEN resumeUpload(uploads[k])
                          ELSE uploads[k]]
         /\ dirty' = (dirty \/ ids # {})
  /\ clicks' = clicks - 1
  /\ UNCHANGED <<chosen, deletes, picker, pushed, uploadsRef, store, runs, srv, inbox, faults, reloads, plan>>

\* "Recover" of a row (line 637, shown for a record awaiting its file):
\* recoverMissingFile creates an input and opens the file selection.
OpenPicker(id) ==
  /\ Quiet
  /\ clicks > 0
  /\ id \in Ids(uploadsRef)
  /\ Find(uploadsRef, id).status = "awaiting-file"
  /\ picker' = picker \cup {id}
  /\ clicks' = clicks - 1
  /\ UNCHANGED <<uploads, uploadsRef, dirty, store, runs, srv, inbox, faults,
                 reloads, plan, pushed, chosen, deletes>>

\* "Select files to resume" (lines 1449-1462): recoverMissingFile for every
\* record uploadsRef shows awaiting its file.
SelectFilesToResume ==
  /\ Quiet
  /\ clicks > 0
  /\ \E k \in 1..Len(uploadsRef) : uploadsRef[k].status = "awaiting-file"
  /\ picker' = picker \cup {uploadsRef[k].id : k \in {j \in 1..Len(uploadsRef) :
                                        uploadsRef[j].status = "awaiting-file"}}
  /\ clicks' = clicks - 1
  /\ UNCHANGED <<uploads, uploadsRef, dirty, store, runs, srv, inbox, faults,
                 reloads, plan, pushed, chosen, deletes>>

\* input.onchange (lines 1008-1027): the user has chosen f (a selection
\* closed without a file changes nothing, line 1010).
FilePicked(id, f) ==
  /\ Quiet
  /\ id \in picker
  /\ picker' = picker \ {id}
  /\ uploads' = MapRec(uploads, id, LAMBDA u : recoverMissingFile(u, f))
  /\ pushed' = IF \E k \in 1..Len(uploads) :
                     /\ uploads[k].id = id
                     /\ (uploads[k].fileName # f.name \/ uploads[k].fileSize # f.size)
               THEN <<Snack("error", "")>> ELSE << >>
  /\ dirty' = TRUE
  /\ chosen' = <<[id |-> id, file |-> f]>>
  /\ UNCHANGED <<uploadsRef, store, runs, srv, inbox, clicks, faults, reloads,
                 plan, deletes>>

PickerClosed(id) ==
  /\ Quiet
  /\ id \in picker
  /\ picker' = picker \ {id}
  /\ UNCHANGED <<uploads, uploadsRef, dirty, store, runs, srv, inbox, clicks,
                 faults, reloads, plan, pushed, chosen, deletes>>

\* The page is reloaded: the state in memory and the running code are gone,
\* localStorage stays, and the component mounts again.
Reload ==
  /\ Quiet
  /\ reloads > 0
  /\ LET m == MountEffects(store)
     IN  /\ store' = m.store
         /\ uploads' = m.uploads
         /\ dirty' = (Len(m.uploads) > 0)
  /\ uploadsRef' = << >>
  /\ runs' = << >>
  /\ reloads' = reloads - 1
  /\ pushed' = << >>
  /\ picker' = {}
  /\ chosen' = << >>
  /\ UNCHANGED <<srv, inbox, clicks, faults, plan, deletes>>

-----------------------------------------------------------------------------
(* The steps of a run.                                                     *)

SetRun(r, run) == [runs EXCEPT ![r] = run]

\* The backend handles the initiate request of run r (lines 464-489): its
\* response lists the parts it holds at that moment (alreadyUploadedParts),
\* with their etags (partsETags) or, both fields being optional, without,
\* and admits the file ("ok"), refuses it (allowed: false, "denied") or
\* reports less room than the file needs (remainingBytes, "quota").
ServeInitiate(r, withETags, reply) ==
  /\ Quiet
  /\ r \in 1..Len(runs)
  /\ runs[r].pc = "init"
  /\ reply \in Outcomes({"denied", "quota"})
  /\ LET held == srv[Find(uploads, runs[r].id).fileName]
     IN  runs' = SetRun(r, [runs[r] EXCEPT
                   !.pc = "initiated",
                   !.reply = reply,
                   !.parts = held,
                   !.etags = IF withETags THEN [q \in held |-> Etag(q)] ELSE << >>])
  /\ Spend(reply)
  /\ UNCHANGED <<chosen, deletes, picker, pushed, uploads, uploadsRef, dirty, store, srv, inbox, clicks,
                 reloads, plan>>

\* A plausible bug of the admission checks: remainingBytes is not compared
\* with the file size.
AdmittedWhateverQuota(verdict) == verdict \in {"ok", "quota"}

\* The admission checks of lines 1136-1145 on the response: "denied" stands
\* for allowed === false, "quota" for a numeric remainingBytes smaller than
\* the file size.
Admitted(verdict) == verdict = "ok"

\* apiInitiateUpload returns (lines 1129-1173): the server's validation, the
\* chunk plan and the totals of the parts the server already holds.
InitiateReturns(r, outcome) ==
  /\ Quiet
  /\ r \in 1..Len(runs)
  /\ runs[r].pc = "initiated"
  /\ outcome \in Outcomes(HttpFailures)
  /\ LET id == runs[r].id
         verdict == IF outcome = "ok" THEN runs[r].reply ELSE outcome
         u0 == Find(uploads, id)
         file == u0.file[1]
         init == [uploadId |-> SessionId(u0.fileName),
                  chunkSize |-> ServerChunkSize,
                  alreadyUploadedParts |-> runs[r].parts,
                  partsETags |-> runs[r].etags]
         chunkSize == IF init.chunkSize = 0 THEN DEFAULT_CHUNK_SIZE ELSE init.chunkSize
         chunks == buildChunks(file.size, chunkSize, init.alreadyUploadedParts,
                               init.partsETags)
         resumedUploadedBytes == UploadedSum(chunks)
         msg == CASE verdict = "denied" -> "Server rejected this file"
                  [] verdict = "quota" -> "Insufficient quota to upload this file"
                  [] OTHER -> Failure(verdict).message
     IN  IF Admitted(verdict)
         THEN /\ uploads' = MapRec(uploads, id,
                    LAMBDA u : [u EXCEPT !.uploadId = init.uploadId,
                                         !.chunkSize = chunkSize,
                                         !.chunks = chunks,
                                         !.uploadedBytes = resumedUploadedBytes,
                                         !.progress = Pct(resumedUploadedBytes, file.size)])
              /\ runs' = SetRun(r, [runs[r] EXCEPT !.pc = "chunks", !.parts = {},
                                                   !.etags = << >>])
              /\ dirty' = TRUE
         ELSE /\ uploads' = Catch(uploads, id, msg)
              /\ runs' = SetRun(r, EndRun([runs[r] EXCEPT !.reply = verdict],
                                          CatchResult(id), msg))
              /\ dirty' = ~CatchIgnores(id)
  /\ Spend(outcome)
  /\ UNCHANGED <<chosen, deletes, picker, pushed, uploadsRef, store, srv, inbox, clicks, reloads, plan>>

\* uploadChunksSequentiallyWithRetry from its entry to its first await
\* (lines 1181-1214): the checks, the file-level AbortController, and the
\* head of the chunk loop.  All reads are of uploadsRef.
EnterChunks(r) ==
  /\ r \in 1..Len(runs)
  /\ runs[r].pc = "chunks"
  /\ FirstMicro(r)
  /\ LET id == runs[r].id
         meta == Find(uploadsRef, id)
         msg == IF meta.uploadId = "" THEN "Missing uploadId"
                ELSE "Missing File; use 'Select file to resume'"
     IN  IF meta.uploadId = "" \/ meta.file = << >>
         THEN /\ uploads' = Catch(uploads, id, msg)
              /\ runs' = SetRun(r, EndRun(runs[r], CatchResult(id), msg))
              /\ dirty' = (dirty \/ ~CatchIgnores(id))
         ELSE /\ uploads' = MapRec(uploads, id, LAMBDA u : [u EXCEPT !.controller = r])
              /\ runs' = SetRun(r, AfterLoopHead(runs[r], meta, 0))
              /\ dirty' = TRUE
  /\ UNCHANGED <<chosen, deletes, picker, pushed, uploadsRef, store, srv, inbox, clicks, faults, reloads, plan>>

\* Math.pow(2, n).
RECURSIVE Pow2(_)
Pow2(n) == IF n = 0 THEN 1 ELSE 2 * Pow2(n - 1)

\* Math.floor(Math.random() * BACKOFF_JITTER_MS): any of 0 ..
\* BACKOFF_JITTER_MS - 1; the model draws the least, the greatest and one in
\* between.
Jitters == {0, 100, BACKOFF_JITTER_MS - 1}

\* A plausible bug of the backoff: the exponent is the number of the retry
\* (attempt + 1) instead of attempt.
BackoffFromRetryNumber(attempt, jitter) ==
  BACKOFF_BASE_MS * Pow2(attempt + 1) + jitter

\* The delay of lines 1331-1333.
Backoff(attempt, jitter) == BACKOFF_BASE_MS * Pow2(attempt) + jitter

\* The watchdog timers that are gone when an attempt ends with kind ("ok"
\* for success): clearInterval and clearTimeout are called after axios.put
\* has resolved (lines 1265-1266), which is before the etag is looked at,
\* and nowhere else; a hard timeout that has fired is gone by itself.
StallCleared(kind) == IF kind \in {"ok", "noetag"} THEN 1 ELSE 0

HardCleared(kind) == IF kind \in {"ok", "noetag", "timeout"} THEN 1 ELSE 0

\* A failed attempt (the catch of lines 1310-1337): the error is thrown to
\* startFileUpload, or the run sleeps before the next attempt.
AttemptFailed(r, kind) ==
  LET id == runs[r].id
      failed == [runs[r] EXCEPT !.lastErr = kind, !.fails = @ + 1, !.req = 0,
                                !.url = NoUrl,
                                !.stallTimers = @ - StallCleared(kind),
                                !.hardTimers = @ - HardCleared(kind)]
  IN  IF GivesUp(runs[r].attempt, kind)
      THEN /\ uploads' = Catch(uploads, id, Failure(kind).message)
           /\ runs' = SetRun(r, EndRun(failed, CatchResult(id),
                                       Failure(kind).message))
           /\ dirty' = ~CatchIgnores(id)
      ELSE /\ uploads' = uploads
           /\ \E jitter \in Jitters :
                runs' = SetRun(r, [failed EXCEPT
                                     !.pc = "backoff", !.sleeps = @ + 1,
                                     !.delay = Backoff(failed.attempt, jitter)])
           /\ dirty' = dirty

\* apiGetPartUrl returns (lines 1214-1238): the watchdogs are armed, the
\* bytes uploaded so far are read from uploadsRef, and the PUT is sent.
PartUrlReturns(r, outcome) ==
  /\ Quiet
  /\ r \in 1..Len(runs)
  /\ runs[r].pc = "parturl"
  /\ outcome \in Outcomes(HttpFailures)
  /\ IF outcome = "ok"
     THEN /\ runs' = SetRun(r, [runs[r] EXCEPT
                 !.pc = "put", !.loaded = 0, !.req = 0,
                 !.elapsed = 0, !.idle = 0,
                 !.stallTimers = @ + 1, !.hardTimers = @ + 1,
                 !.url = [partNumber |-> runs[r].req, request |-> runs[r].tries],
                 !.uploadedBytesBefore = Find(uploadsRef, runs[r].id).uploadedBytes])
          /\ UNCHANGED <<chosen, deletes, picker, pushed, uploads, dirty>>
     ELSE AttemptFailed(r, outcome)
  /\ Spend(outcome)
  /\ UNCHANGED <<chosen, deletes, picker, pushed, uploadsRef, store, srv, inbox, clicks, reloads, plan>>

\* onUploadProgress (lines 1241-1262) with evt.loaded = n.
PutProgress(r, n) ==
  /\ Quiet
  /\ r \in 1..Len(runs)
  /\ runs[r].pc = "put"
  /\ n \in (runs[r].loaded + 1)..(runs[r].chunkMeta.end - runs[r].chunkMeta.start)
  /\ LET id == runs[r].id
         newUploadedBytes == runs[r].uploadedBytesBefore + n
     IN  uploads' = MapRec(uploads, id,
            LAMBDA u : [u EXCEPT !.uploadedBytes = newUploadedBytes,
                                 !.progress = Pct(newUploadedBytes, u.fileSize)])
  /\ runs' = SetRun(r, [runs[r] EXCEPT !.loaded = n, !.idle = 0])
  /\ dirty' = TRUE
  /\ UNCHANGED <<chosen, deletes, picker, pushed, uploadsRef, store, srv, inbox, clicks, faults, reloads, plan>>

\* The chunk-completion updater of lines 1284-1306.
ChunkDone(u, chunkMeta, uploadedBytesBefore, etagClean) ==
  LET updatedChunks == [k \in 1..Len(u.chunks) |->
                          IF u.chunks[k].index = chunkMeta.index
                          THEN [u.chunks[k] EXCEPT !.uploaded = TRUE, !.etag = etagClean]
                          ELSE u.chunks[k]]
      finishedBytes == chunkMeta.end - chunkMeta.start
      newUploadedBytes == uploadedBytesBefore + finishedBytes
  IN  [u EXCEPT !.chunks = updatedChunks,
                !.uploadedBytes = newUploadedBytes,
                !.progress = Pct(newUploadedBytes, u.fileSize)]

\* axios.put ends (lines 1238-1337).  With "ok" the chunk is marked and the
\* loop goes on to the next chunk, reading uploadsRef as it is now.  With
\* "noetag" the backend has stored the part but the response carries no etag.
PutReturns(r, outcome) ==
  /\ Quiet
  /\ r \in 1..Len(runs)
  /\ runs[r].pc = "put"
  /\ outcome \in Outcomes(PutFailures)
  /\ LET id == runs[r].id
         run == runs[r]
         name == Find(uploads, id).fileName
         partNumber == run.chunkMeta.index + 1
     IN  /\ IF outcome = "ok"
            THEN /\ uploads' = MapRec(uploads, id,
                       LAMBDA u : ChunkDone(u, run.chunkMeta, run.uploadedBytesBefore,
                                            Etag(partNumber)))
                 /\ runs' = SetRun(r, AfterLoopHead(
                              [run EXCEPT !.stallTimers = @ - StallCleared("ok"),
                                          !.hardTimers = @ - HardCleared("ok")],
                              Find(uploadsRef, id), run.i + 1))
                 /\ dirty' = TRUE
            ELSE AttemptFailed(r, outcome)
         /\ srv' = IF outcome \in {"ok", "noetag"}
                   THEN [srv EXCEPT ![name] = @ \cup {partNumber}]
                   ELSE srv
  /\ Spend(outcome)
  /\ UNCHANGED <<chosen, deletes, picker, pushed, uploadsRef, store, inbox, clicks, reloads, plan>>

\* A plausible bug of the retry: the next attempt sends its PUT without
\* asking for a url of its own.
BackoffElapsedWithoutUrl(r) ==
  /\ Quiet
  /\ r \in 1..Len(runs)
  /\ runs[r].pc = "backoff"
  /\ runs' = SetRun(r, [runs[r] EXCEPT
                          !.pc = "put", !.attempt = @ + 1, !.loaded = 0,
                          !.delay = 0, !.tries = @ + 1])
  /\ UNCHANGED <<chosen, deletes, picker, pushed, uploads, uploadsRef, dirty, store, srv,
                 inbox, clicks, faults, reloads, plan>>

\* sleep(delay) is over (lines 1334-1336): the next attempt asks for a url.
BackoffElapsed(r) ==
  /\ Quiet
  /\ r \in 1..Len(runs)
  /\ runs[r].pc = "backoff"
  /\ runs' = SetRun(r, [runs[r] EXCEPT
                          !.pc = "parturl", !.attempt = @ + 1, !.loaded = 0,
                          !.delay = 0, !.tries = @ + 1, !.elapsed = 0, !.idle = 0,
                          !.req = runs[r].chunkMeta.index + 1])
  /\ UNCHANGED <<chosen, deletes, picker, pushed, uploads, uploadsRef, dirty, store, srv, inbox, clicks, faults,
                 reloads, plan>>

\* The period of the stall interval (line 1227).
STALL_CHECK_MS == 1000

\* A plausible bug of the stall watchdog: the silence is compared with the
\* period of the interval instead of STALL_TIMEOUT_MS.
StallDueAfterOnePeriod(r) == runs[r].idle > STALL_CHECK_MS

\* The test of the stall interval (line 1223) and the expiry of the hard
\* timeout (lines 1229-1232) of the attempt whose PUT is in flight.
StallDue(r) == runs[r].idle > STALL_TIMEOUT_MS

TimeoutDue(r) == runs[r].elapsed >= REQUEST_TIMEOUT_MS

\* One period of the stall interval passes for the PUTs in flight.  A timer
\* that is due runs before more time passes.
Tick ==
  /\ Quiet
  /\ \E r \in 1..Len(runs) : runs[r].pc = "put"
  /\ \A r \in 1..Len(runs) : runs[r].pc = "put" => ~StallDue(r) /\ ~TimeoutDue(r)
  /\ runs' = [r \in 1..Len(runs) |->
                IF runs[r].pc = "put"
                THEN [runs[r] EXCEPT !.elapsed = @ + STALL_CHECK_MS,
                                     !.idle = @ + STALL_CHECK_MS]
                ELSE runs[r]]
  /\ UNCHANGED <<chosen, deletes, picker, pushed, uploads, uploadsRef, dirty, store,
                 srv, inbox, clicks, faults, reloads, plan>>

\* onUploadProgress with an event that has no total (lines 1242-1243): only
\* lastProgressAt is set.
ProgressWithoutTotal(r) ==
  /\ Quiet
  /\ r \in 1..Len(runs)
  /\ runs[r].pc = "put"
  /\ runs[r].idle > 0
  /\ runs' = SetRun(r, [runs[r] EXCEPT !.idle = 0])
  /\ UNCHANGED <<chosen, deletes, picker, pushed, uploads, uploadsRef, dirty, store,
                 srv, inbox, clicks, faults, reloads, plan>>

\* The stall interval finds the PUT silent for too long (lines 1222-1227):
\* didStall is set and the attempt's controller is aborted, which rejects
\* axios.put.
StallFires(r) ==
  /\ Quiet
  /\ r \in 1..Len(runs)
  /\ runs[r].pc = "put"
  /\ StallDue(r)
  /\ AttemptFailed(r, "stall")
  /\ UNCHANGED <<chosen, deletes, picker, pushed, uploadsRef, store, srv, inbox,
                 clicks, faults, reloads, plan>>

\* The hard timeout expires (lines 1229-1232): didTimeout is set and the
\* attempt's controller is aborted.
TimeoutFires(r) ==
  /\ Quiet
  /\ r \in 1..Len(runs)
  /\ runs[r].pc = "put"
  /\ TimeoutDue(r)
  /\ AttemptFailed(r, "timeout")
  /\ UNCHANGED <<chosen, deletes, picker, pushed, uploadsRef, store, srv, inbox,
                 clicks, faults, reloads, plan>>

\* A plausible bug of the last updater: the test of the status is inverted.
MarkDoneWhenStopped(u) ==
  IF u.status = "paused" \/ u.status = "canceled"
  THEN [u EXCEPT !.status = "done", !.controller = Undefined,
                 !.completing = FALSE, !.progress = Pct100]
  ELSE u

\* The last updater of startFileUpload (lines 1065-1077).
MarkDone(u) ==
  IF u.status # "paused" /\ u.status # "canceled"
  THEN [u EXCEPT !.status = "done", !.controller = Undefined,
                 !.completing = FALSE, !.progress = Pct100]
  ELSE u

\* The parts list apiCompleteUpload sends (lines 501-503).
CompleteParts(chunks) ==
  LET sendable == SelectSeq(chunks, LAMBDA c : c.uploaded /\ c.etag # Undefined)
  IN  [k \in 1..Len(sendable) |->
         [partNumber |-> sendable[k].index + 1, etag |-> sendable[k].etag]]

\* finalizeUpload from its entry to its await (lines 1346-1360), reading
\* uploadsRef; when it returns without calling the backend, startFileUpload
\* goes on to its last updater.
EnterFinalize(r) ==
  /\ r \in 1..Len(runs)
  /\ runs[r].pc = "finalize"
  /\ FirstMicro(r)
  /\ LET id == runs[r].id
         meta == Find(uploadsRef, id)
     IN  IF meta.uploadId = ""
         THEN /\ uploads' = Catch(uploads, id, "Missing uploadId")
              /\ runs' = SetRun(r, EndRun(runs[r], CatchResult(id), "Missing uploadId"))
              /\ dirty' = (dirty \/ ~CatchIgnores(id))
         ELSE IF \E k \in 1..Len(meta.chunks) : ~meta.chunks[k].uploaded
         THEN /\ uploads' = MapRec(uploads, id, MarkDone)
              /\ runs' = SetRun(r, EndRun(runs[r], "done", ""))
              /\ dirty' = TRUE
         ELSE /\ uploads' = MapRec(uploads, id, LAMBDA u : [u EXCEPT !.completing = TRUE])
              /\ runs' = SetRun(r, [runs[r] EXCEPT !.pc = "complete",
                                                   !.sent = CompleteParts(meta.chunks)])
              /\ dirty' = TRUE
  /\ UNCHANGED <<chosen, deletes, picker, pushed, uploadsRef, store, srv, inbox, clicks, faults, reloads, plan>>

\* apiCompleteUpload returns (lines 1360-1369), and startFileUpload marks the
\* record done (lines 1065-1077).
CompleteReturns(r, outcome) ==
  /\ Quiet
  /\ r \in 1..Len(runs)
  /\ runs[r].pc = "complete"
  /\ outcome \in Outcomes(HttpFailures)
  /\ LET id == runs[r].id
         result == [fileUrl |-> FileUrl(Find(uploads, id).uploadId)]
     IN  IF outcome = "ok"
         THEN /\ uploads' = MapRec(uploads, id,
                    LAMBDA u : MarkDone([u EXCEPT !.fileUrl = result.fileUrl,
                                                  !.completing = FALSE]))
              /\ runs' = SetRun(r, EndRun(runs[r], "done", ""))
              /\ dirty' = TRUE
         ELSE /\ uploads' = Catch(uploads, id, Failure(outcome).message)
              /\ runs' = SetRun(r, EndRun(runs[r], CatchResult(id), Failure(outcome).message))
              /\ dirty' = ~CatchIgnores(id)
  /\ Spend(outcome)
  /\ UNCHANGED <<chosen, deletes, picker, pushed, uploadsRef, store, srv, inbox, clicks, reloads, plan>>

-----------------------------------------------------------------------------
(* One call of buildChunks on inputs drawn by PlanInit.                    *)

NoPlan == [size |-> 0, chunkSize |-> 1, parts |-> {}, etags |-> << >>,
           called |-> FALSE, out |-> << >>]

\* The etag maps: every function from a set of part numbers to etags.
EtagMaps ==
  UNION {[d -> 1..PlanMaxEtag] : d \in SUBSET (1..PlanMaxPart)}

PlanStep ==
  /\ ~plan.called
  /\ plan' = [plan EXCEPT !.called = TRUE,
                          !.out = buildChunks(plan.size, plan.chunkSize,
                                              plan.parts, plan.etags)]
  /\ UNCHANGED <<chosen, deletes, picker, pushed, uploads, uploadsRef, dirty, store, runs, srv, inbox,
                 clicks, faults, reloads>>

-----------------------------------------------------------------------------
(* Scenarios and specifications.                                           *)

File(name, size) == [name |-> name, size |-> size, lastModified |-> 1]

FileNames == <<"a", "b", "c", "d", "e">>

Names == Range(FileNames)

NoParts == [n \in Names |-> {}]

NoDeletes == [n \in Names |-> 0]

\* The page after its first mount with an empty localStorage, the files the
\* user is going to drop, the parts the backend already holds, the budgets.
Scenario(files, held, c, f, rl) ==
  /\ uploads = << >>
  /\ uploadsRef = << >>
  /\ dirty = FALSE
  /\ store = << >>
  /\ runs = << >>
  /\ srv \in held
  /\ inbox = files
  /\ clicks = c
  /\ faults = f
  /\ reloads = rl
  /\ plan = NoPlan
  /\ pushed = << >>
  /\ picker = {}
  /\ chosen = << >>
  /\ deletes = NoDeletes

Idle ==
  /\ uploads = << >>
  /\ uploadsRef = << >>
  /\ dirty = FALSE
  /\ store = << >>
  /\ runs = << >>
  /\ srv = NoParts
  /\ inbox = << >>
  /\ clicks = 0
  /\ faults = 0
  /\ reloads = 0
  /\ pushed = << >>
  /\ picker = {}
  /\ chosen = << >>
  /\ deletes = NoDeletes

RunIds == 1..Len(runs)

RecordIds == Ids(uploadsRef)

\* The commit and the steps of the runs.
Step ==
  \/ Commit
  \/ \E r \in RunIds : \E withETags \in BOOLEAN :
       \E reply \in {"ok", "denied", "quota"} : ServeInitiate(r, withETags, reply)
  \/ \E r \in RunIds :
       \E outcome \in {"ok"} \cup HttpFailures : InitiateReturns(r, outcome)
  \/ \E r \in RunIds : EnterChunks(r)
  \/ \E r \in RunIds : \E outcome \in {"ok"} \cup HttpFailures :
       PartUrlReturns(r, outcome)
  \/ \E r \in RunIds : \E n \in 1..PlanMaxSize : PutProgress(r, n)
  \/ \E r \in RunIds : \E outcome \in {"ok"} \cup PutFailures : PutReturns(r, outcome)
  \/ \E r \in RunIds : EnterFinalize(r)
  \/ \E r \in RunIds : \E outcome \in {"ok"} \cup HttpFailures :
       CompleteReturns(r, outcome)

\* The buttons of one row.
RowStep ==
  \/ \E id \in RecordIds : Pause(id)
  \/ \E id \in RecordIds : Resume(id)
  \/ \E id \in RecordIds : \E outcome \in {"ok", "http500"} : Cancel(id, outcome)

\* The buttons of the toolbar.
BulkStep ==
  \/ PauseAll
  \/ ResumeAll

UserStep ==
  \/ RowStep
  \/ BulkStep

\* The default scenario: one file of two chunks; the backend may already
\* hold part 1 of it (left by an earlier page); two user actions, one
\* failure.
SpecFileSize == 4
SpecClicks == 2
SpecFaults == 1

Init ==
  Scenario(<<File("a", SpecFileSize)>>,
           {NoParts, [NoParts EXCEPT !["a"] = {1}]}, SpecClicks, SpecFaults, 0)

Next ==
  \/ \E n \in 1..Len(inbox) : Enqueue(n)
  \/ Step
  \/ UserStep
  \/ \E r \in RunIds : BackoffElapsed(r)

Spec == Init /\ [][Next]_vars

\* buildChunks alone, on every input within the bounds.
PlanInit ==
  /\ Idle
  /\ plan \in [size : 0..PlanMaxSize, chunkSize : 1..PlanMaxChunk,
               parts : SUBSET (1..PlanMaxPart), etags : EtagMaps,
               called : {FALSE}, out : {<< >>}]

PlanNext == PlanStep

SpecPlan == PlanInit /\ [][PlanNext]_vars

\* More files than MAX_PARALLEL_FILES, dropped in one batch: one file of
\* one chunk and ParFiles - 1 empty files; no failures.
ParFiles == 4
ParClicks == 2

ParInbox ==
  [k \in 1..ParFiles |->
     File(FileNames[k], IF k <= 1 THEN 1 ELSE 0)]

ParInit == Scenario(ParInbox, {NoParts}, ParClicks, 0, 0)

ParNext ==
  \/ Enqueue(Len(inbox))
  \/ Step
  \/ RowStep

SpecPar == ParInit /\ [][ParNext]_vars

\* One file whose attempts can fail RetryFaults times: a file of two chunks
\* that the user leaves alone, or a file of one chunk and RetryClicks user
\* actions.
RetryFaults == 5
RetryClicks == 1

RetryInit ==
  \/ Scenario(<<File("a", SpecFileSize)>>, {NoParts}, 0, RetryFaults, 0)
  \/ Scenario(<<File("a", ServerChunkSize)>>, {NoParts}, RetryClicks, RetryFaults, 0)

SpecRetry == RetryInit /\ [][Next]_vars

\* One file, and page reloads.
ReloadMax == 1

ReloadInit ==
  Scenario(<<File("a", SpecFileSize)>>, {NoParts}, SpecClicks, 0, ReloadMax)

ReloadNext ==
  \/ \E n \in 1..Len(inbox) : Enqueue(n)
  \/ Step
  \/ UserStep
  \/ Reload

SpecReload == ReloadInit /\ [][ReloadNext]_vars

\* Every backend call succeeds and the user only drops the files: two files
\* of two chunks, part 1 of the first possibly on the backend already.  The
\* browser and the backend keep taking steps (weak fairness).
HappyInit ==
  Scenario(<<File("a", SpecFileSize), File("b", SpecFileSize)>>,
           {NoParts, [NoParts EXCEPT !["a"] = {1}]}, 0, 0, 0)

HappyNext ==
  \/ Enqueue(Len(inbox))
  \/ Step

SpecHappy == HappyInit /\ [][HappyNext]_vars /\ WF_vars(HappyNext)

\* The queue close to MAX_FILES records: the page holds MAX_FILES - room
\* records that the user has canceled (room in 1..QueueRoom) and the user
\* drops up to QueueBatch files, of size 1, of exactly MAX_FILE_SIZE_BYTES
\* or of one unit more.
QueueRoom == 3
QueueBatch == 3

CanceledRecords(n) ==
  [k \in 1..n |-> cancelUpload(NewRecord(k, File("old", 1)))]

QueueSizes == {1, MAX_FILE_SIZE_BYTES, MAX_FILE_SIZE_BYTES + 1}

QueueInboxes ==
  UNION {{[k \in 1..n |-> File(FileNames[k], sizes[k])] :
            sizes \in [1..n -> QueueSizes]} : n \in 1..QueueBatch}

QueueInit ==
  /\ \E room \in 1..QueueRoom : uploads = CanceledRecords(MAX_FILES - room)
  /\ uploadsRef = uploads
  /\ dirty = FALSE
  /\ store = << >>
  /\ runs = << >>
  /\ srv = NoParts
  /\ inbox \in QueueInboxes
  /\ clicks = 0
  /\ faults = 0
  /\ reloads = 0
  /\ plan = NoPlan
  /\ pushed = << >>
  /\ picker = {}
  /\ chosen = << >>
  /\ deletes = NoDeletes

QueueNext ==
  \/ \E n \in 1..Len(inbox) : Enqueue(n)
  \/ Commit

SpecQueue == QueueInit /\ [][QueueNext]_vars

\* Records that await their file.  The page shows RecoverRecords records
\* of an earlier page, each of them either a placeholder without file
\* handle or a paused record with its file, all with part 1 uploaded; the
\* user drops files one at a time and answers file selections.  Names,
\* sizes and last-modified times are drawn so that each of them can differ
\* between a record and a file; a placeholder can lack its last-modified
\* time (it is optional in the snapshot, line 370).
RecoverRecords == 2
RecoverDrops == 1
RecoverClicks == 2

\* The files the user can drop or choose in a file selection.
PickFiles ==
  [name : {"a", "b"}, size : {SpecFileSize - 1, SpecFileSize},
   lastModified : {1, 2}]

\* A record paused after part 1 of its file was uploaded.
PausedRecord(id, file, lastModified) ==
  LET chunks == buildChunks(file.size, ServerChunkSize, {1}, [q \in {1} |-> Etag(q)])
  IN  [NewRecord(id, file) EXCEPT
         !.fileLastModified = lastModified,
         !.status = "paused",
         !.uploadId = SessionId(file.name),
         !.chunkSize = ServerChunkSize,
         !.chunks = chunks,
         !.uploadedBytes = UploadedSum(chunks),
         !.progress = Pct(UploadedSum(chunks), file.size)]

\* What a reload makes of it: the placeholder that awaits the file.
Placeholder(id, file, lastModified) ==
  Restored(Persisted(<<PausedRecord(id, file, lastModified)>>))[1]

RecoverLists ==
  {[k \in 1..RecoverRecords |->
      IF kind[k].held
      THEN PausedRecord(k, kind[k].file, kind[k].file.lastModified)
      ELSE Placeholder(k, kind[k].file,
                       IF kind[k].dated THEN kind[k].file.lastModified
                       ELSE Undefined)] :
     kind \in [1..RecoverRecords ->
                [file : PickFiles, held : BOOLEAN, dated : BOOLEAN]]}

RecoverInit ==
  /\ uploads \in RecoverLists
  /\ uploadsRef = uploads
  /\ dirty = FALSE
  /\ store = Persisted(uploads)
  /\ runs = << >>
  /\ srv = [n \in Names |-> {1}]
  /\ inbox \in [1..RecoverDrops -> PickFiles]
  /\ clicks = RecoverClicks
  /\ faults = 0
  /\ reloads = 0
  /\ plan = NoPlan
  /\ pushed = << >>
  /\ picker = {}
  /\ chosen = << >>
  /\ deletes = NoDeletes

RecoverNext ==
  \/ Enqueue(1)
  \/ Commit
  \/ \E id \in RecordIds : OpenPicker(id)
  \/ SelectFilesToResume
  \/ \E id \in picker : \E f \in PickFiles : FilePicked(id, f)
  \/ \E id \in picker : PickerClosed(id)

SpecRecover == RecoverInit /\ [][RecoverNext]_vars

\* Two files side by side, one of one chunk and one of two chunks, with
\* PairFaults failures and PairClicks clicks on the buttons of a row.
PairFaults == 1
PairClicks == 1

PairInit ==
  Scenario(<<File("a", 1), File("b", SpecFileSize - 1)>>, {NoParts},
           PairClicks, PairFaults, 0)

PairNext ==
  \/ Enqueue(Len(inbox))
  \/ Step
  \/ RowStep
  \/ \E r \in RunIds : BackoffElapsed(r)

SpecPair == PairInit /\ [][PairNext]_vars

\* One file of one chunk, no injected failure and no user action, and a
\* clock: the PUT of an attempt can take any time and can report progress
\* at any time, so that its watchdogs fire when they are due.
WatchInit == Scenario(<<File("a", 1)>>, {NoParts}, 0, 0, 0)

WatchNext ==
  \/ Enqueue(Len(inbox))
  \/ Step
  \/ \E r \in RunIds : BackoffElapsed(r)
  \/ Tick
  \/ \E r \in RunIds : ProgressWithoutTotal(r)
  \/ \E r \in RunIds : StallFires(r)
  \/ \E r \in RunIds : TimeoutFires(r)

SpecWatch == WatchInit /\ [][WatchNext]_vars

-----------------------------------------------------------------------------
(* Claims.                                                                 *)

Ceil(a, b) == (a + b - 1) \div b

Len_(c) == c.end - c.start

\* C3: buildChunks(fileSize, chunkSize) returns n = ceil(fileSize / chunkSize)
\* chunks with indices 0..n-1 in order; the first starts at 0, each ends
\* where the next starts, the last ends at fileSize; every chunk has
\* 0 < end - start <= chunkSize, and only the last may be shorter than
\* chunkSize.
C3_Partition ==
  plan.called =>
    LET c == plan.out
        n == Len(c)
    IN  /\ n = Ceil(plan.size, plan.chunkSize)
        /\ \A k \in 1..n : c[k].index = k - 1
        /\ n > 0 => c[1].start = 0 /\ c[n].end = plan.size
        /\ \A k \in 1..(n - 1) : c[k].end = c[k + 1].start
        /\ \A k \in 1..n : 0 < Len_(c[k]) /\ Len_(c[k]) <= plan.chunkSize
        /\ \A k \in 1..(n - 1) : Len_(c[k]) = plan.chunkSize

\* A plan of three chunks whose last chunk is shorter (5 bytes in chunks of 2).
C3_Witness ==
  /\ plan.called
  /\ plan.size = 5 /\ plan.chunkSize = 2
  /\ Len(plan.out) = 3
  /\ Len_(plan.out[3]) = 1

\* C4: buildChunks(fileSize, chunkSize, P, E) has the indices, starts and
\* ends of buildChunks(fileSize, chunkSize); chunk i is uploaded, with etag
\* E[i + 1], exactly when i + 1 is in P, and is not uploaded and has no etag
\* otherwise.
C4_ResumePlan ==
  plan.called =>
    LET c == plan.out
        fresh == buildChunks(plan.size, plan.chunkSize, {}, << >>)
    IN  /\ Len(c) = Len(fresh)
        /\ \A k \in 1..Len(c) :
             /\ c[k].index = fresh[k].index
             /\ c[k].start = fresh[k].start
             /\ c[k].end = fresh[k].end
             /\ c[k].uploaded = ((c[k].index + 1) \in plan.parts)
             /\ c[k].etag = IF (c[k].index + 1) \in plan.parts
                            THEN Lookup(plan.etags, c[k].index + 1)
                            ELSE Undefined

\* Part 2 of three is marked uploaded with its etag, parts 1 and 3 are not.
C4_Witness ==
  /\ plan.called
  /\ plan.size = 5 /\ plan.chunkSize = 2
  /\ plan.parts = {2} /\ plan.etags = (2 :> 1)
  /\ ~plan.out[1].uploaded /\ plan.out[1].etag = Undefined
  /\ plan.out[2].uploaded /\ plan.out[2].etag = 1
  /\ ~plan.out[3].uploaded

Uploading(list) == {k \in 1..Len(list) : list[k].status = "uploading"}

RunsOf(id) == {r \in RunIds : runs[r].id = id}

InTransfer(r) == runs[r].pc \in {"parturl", "put", "backoff"}

\* C2: within one file, no two part transfers (PUTs) are in flight at the
\* same time, and a run works on chunk i only when every chunk before it is
\* marked uploaded.
C2_SequentialPerFile ==
  \A k \in 1..Len(uploads) :
    LET u == uploads[k]
    IN  /\ Cardinality({r \in RunsOf(u.id) : runs[r].pc = "put"}) <= 1
        /\ \A r \in RunsOf(u.id) :
             InTransfer(r) =>
               \A j \in 1..Len(u.chunks) :
                 u.chunks[j].index < runs[r].chunkMeta.index => u.chunks[j].uploaded

\* C5: a record with status "done" has every chunk uploaded and a fileUrl.
C5_DoneIsFinalized ==
  \A k \in 1..Len(uploads) :
    uploads[k].status = "done" =>
      /\ \A j \in 1..Len(uploads[k].chunks) : uploads[k].chunks[j].uploaded
      /\ uploads[k].fileUrl # ""

\* C7: no step stores a smaller uploadedBytes in a record than it held.
C7_MonotonicBytes ==
  [][\A k \in 1..Len(uploads) :
       k <= Len(uploads') => uploads'[k].uploadedBytes >= uploads[k].uploadedBytes]_vars

\* C8: while no part transfer (PUT) of a record is in flight, its
\* uploadedBytes is the sum of the lengths of its uploaded chunks.
C8_BytesAreChunkSum ==
  \A k \in 1..Len(uploads) :
    (\A r \in RunsOf(uploads[k].id) : runs[r].pc # "put") =>
      uploads[k].uploadedBytes = UploadedSum(uploads[k].chunks)

\* C9: for a record with fileSize > 0, uploadedBytes <= fileSize and
\* 0 <= progress <= 100.
C9_BytesAndPercentInRange ==
  \A k \in 1..Len(uploads) :
    uploads[k].fileSize > 0 =>
      /\ uploads[k].uploadedBytes <= uploads[k].fileSize
      /\ 0 <= uploads[k].progress.n
      /\ uploads[k].progress.n <= 100 * uploads[k].progress.d

\* The record of the snapshot p as the hydration effect has to restore it.
RestoredAs(u, p) ==
  /\ u.id = p.id
  /\ u.status = "awaiting-file"
  /\ u.file = << >>
  /\ u.fileName = p.fileName
  /\ u.fileSize = p.fileSize
  /\ u.uploadId = p.uploadId
  /\ u.chunkSize = p.chunkSize
  /\ u.chunks = p.chunks

\* C6: a reload leaves every record of the persisted snapshot in the record
\* list, as "awaiting-file", without file, with the persisted id, name,
\* size, session id, chunk size and chunks.
C6_ReloadKeepsSnapshot ==
  [][reloads' < reloads =>
       \A k \in 1..Len(store) :
         \E j \in 1..Len(uploads') : RestoredAs(uploads'[j], store[k])]_vars

\* The step in which run r throws its last error: attempt number
\* CHUNK_MAX_RETRIES (the fifth) of its chunk fails.
Exhausted(r) ==
  /\ r \in RunIds
  /\ runs[r].pc \in {"parturl", "put"}
  /\ runs[r].attempt = CHUNK_MAX_RETRIES
  /\ faults' < faults
  /\ clicks' = clicks
  /\ runs'[r].pc = "end"

AttemptsBounded == \A r \in RunIds : runs[r].attempt <= CHUNK_MAX_RETRIES

EndedRunsStay ==
  \A r \in RunIds : runs[r].pc = "end" => r <= Len(runs') /\ runs'[r] = runs[r]

\* C10 as stated: a chunk gets at most 1 + CHUNK_MAX_RETRIES attempts; when
\* the last one fails the run ends, sends no later chunk, and the record
\* goes to "error" with the message of the last error.
C10_ExhaustedMeansError ==
  /\ []AttemptsBounded
  /\ [][EndedRunsStay]_vars
  /\ [][\A r \in RunIds :
          Exhausted(r) =>
            LET u == Find(uploads', runs[r].id)
            IN  u.status = "error" /\ u.error = runs'[r].err /\ u.error # ""]_vars

\* C10, amended: as above, except that a record the user has paused or
\* canceled in the meantime is left as it is (no "error", no message).
C10_ExhaustedMeansErrorUnlessUserStopped ==
  /\ []AttemptsBounded
  /\ [][EndedRunsStay]_vars
  /\ [][\A r \in RunIds :
          Exhausted(r) =>
            LET u == Find(uploads', runs[r].id)
                before == Find(uploads, runs[r].id)
            IN  IF before.status \in {"paused", "canceled"}
                THEN u = before
                ELSE u.status = "error" /\ u.error = runs'[r].err /\ u.error # ""]_vars

\* All five attempts of a chunk have failed with a retriable error (only
\* the fifth one is thrown) and the user has done nothing: the run is over
\* and the record shows the last error.
C10_Witness ==
  \E r \in RunIds :
    /\ runs[r].pc = "end"
    /\ runs[r].result = "error"
    /\ runs[r].err = Failure("http500").message
    /\ faults = 0
    /\ clicks = RetryClicks
    /\ Find(uploads, runs[r].id).uploadId # ""
    /\ Find(uploads, runs[r].id).status = "error"
    /\ Find(uploads, runs[r].id).error = runs[r].err

\* The errors the retry policy is meant to retry: a stall, a hard timeout,
\* an error without HTTP status, and the statuses 429, 408, 403 and 5xx.
MeantRetriable(kind) ==
  \/ kind \in {"stall", "timeout"}
  \/ Failure(kind).status = 0
  \/ Failure(kind).status \in {429, 408, 403}
  \/ Failure(kind).status >= 500

\* The step in which an attempt of run r fails (its part-url request or its
\* PUT) while the chunk has attempts left.
AttemptFails(r) ==
  /\ r \in RunIds
  /\ runs[r].pc \in {"parturl", "put"}
  /\ runs[r].attempt < CHUNK_MAX_RETRIES
  /\ faults' < faults
  /\ clicks' = clicks
  /\ runs'[r] # runs[r]

Retried(r) ==
  /\ runs'[r].pc = "backoff"
  /\ runs'[r].attempt = runs[r].attempt
  /\ uploads' = uploads

\* C11 as stated: a failed attempt is retried exactly when its error is one
\* of the retriable ones; any other error ends the run at once (no backoff,
\* no further attempt) and the record goes to "error".
C11_RetriedIffRetriable ==
  /\ [][EndedRunsStay]_vars
  /\ [][\A r \in RunIds :
          AttemptFails(r) =>
            IF MeantRetriable(runs'[r].lastErr) THEN Retried(r)
            ELSE /\ runs'[r].pc = "end"
                 /\ Find(uploads', runs[r].id).status = "error"]_vars

\* C11, amended: as above, except that a record the user has paused or
\* canceled in the meantime is left as it is instead of going to "error".
C11_RetriedIffRetriableUnlessUserStopped ==
  /\ [][EndedRunsStay]_vars
  /\ [][\A r \in RunIds :
          AttemptFails(r) =>
            IF MeantRetriable(runs'[r].lastErr) THEN Retried(r)
            ELSE LET u == Find(uploads', runs[r].id)
                     before == Find(uploads, runs[r].id)
                 IN  /\ runs'[r].pc = "end"
                     /\ IF before.status \in {"paused", "canceled"}
                        THEN u = before
                        ELSE /\ u.status = "error"
                             /\ u.error = Failure(runs'[r].lastErr).message]_vars

\* The first attempt of a chunk got a 404: the run is over after that single
\* failure and the record shows the error.
C11_Witness ==
  \E r \in RunIds :
    /\ runs[r].pc = "end"
    /\ runs[r].lastErr = "http404"
    /\ runs[r].result = "error"
    /\ faults = RetryFaults - 1
    /\ clicks = RetryClicks
    /\ Find(uploads, runs[r].id).status = "error"
    /\ Find(uploads, runs[r].id).error = Failure("http404").message

\* C12: while a record is paused or canceled, no PUT of it completes (the
\* backend stores no part of it), none of its chunks is marked uploaded, and
\* none of its runs starts a part-url request or a PUT.
C12_PauseStopsTransfers ==
  [][\A k \in 1..Len(uploads) :
       (uploads[k].status \in {"paused", "canceled"} /\ k <= Len(uploads')) =>
         /\ \A j \in 1..Len(uploads[k].chunks) :
              uploads'[k].chunks[j].uploaded => uploads[k].chunks[j].uploaded
         /\ srv'[uploads[k].fileName] \subseteq srv[uploads[k].fileName]
         /\ \A r \in RunsOf(uploads[k].id) :
              runs'[r].pc \in {"parturl", "put"} =>
                runs'[r].pc = runs[r].pc /\ runs'[r].attempt = runs[r].attempt]_vars

\* The step in which run r starts a part-url request or a PUT.
StartsAttempt(r) ==
  /\ r \in RunIds
  /\ r <= Len(runs')
  /\ runs'[r].pc \in {"parturl", "put"}
  /\ runs'[r].pc # runs[r].pc

\* The step in which the backend stores the part that run r has sent.
PutStored(r) ==
  /\ r \in RunIds
  /\ r <= Len(runs')
  /\ runs[r].pc = "put"
  /\ runs'[r].pc # "put"
  /\ (faults' = faults \/ runs'[r].lastErr = "noetag")

ChunkOf(list, id, index) ==
  LET u == Find(list, id)
  IN  u.chunks[CHOOSE j \in 1..Len(u.chunks) : u.chunks[j].index = index]

\* C13: no run starts a part-url request or a PUT for a chunk that is
\* already marked uploaded, and the backend stores no part that it already
\* holds.
C13_OnlyMissingChunksSent ==
  [][\A r \in RunIds :
       /\ StartsAttempt(r) =>
            ~ChunkOf(uploads, runs[r].id, runs'[r].chunkMeta.index).uploaded
       /\ PutStored(r) =>
            (runs[r].chunkMeta.index + 1) \notin srv[Find(uploads, runs[r].id).fileName]]_vars

\* C14: a chunk that is marked uploaded stays marked and keeps its etag.
C14_UploadedIsStable ==
  [][\A k \in 1..Len(uploads) :
       \A j \in 1..Len(uploads[k].chunks) :
         uploads[k].chunks[j].uploaded =>
           /\ k <= Len(uploads')
           /\ uploads'[k].id = uploads[k].id
           /\ j <= Len(uploads'[k].chunks)
           /\ uploads'[k].chunks[j].uploaded
           /\ uploads'[k].chunks[j].etag = uploads[k].chunks[j].etag]_vars

Finished(u) == u.status = "done" /\ u.progress = Pct100 /\ u.fileUrl # ""

\* C15: when every backend call succeeds and the user does nothing but drop
\* the files, no record ever shows "error", and eventually every record is
\* "done" with progress 100 and a fileUrl.
C15_HappyPathCompletes ==
  /\ [](\A k \in 1..Len(uploads) : uploads[k].status # "error")
  /\ <>(/\ inbox = << >>
        /\ Len(uploads) > 0
        /\ \A k \in 1..Len(uploads) : Finished(uploads[k]))

\* The step in which run r calls the backend's complete endpoint.
CallsComplete(r) ==
  /\ r \in RunIds
  /\ r <= Len(runs')
  /\ runs[r].pc # "complete"
  /\ runs'[r].pc = "complete"

\* C16: complete is called only when every chunk of the record is marked
\* uploaded, and the parts list sent has one (partNumber, etag) pair per
\* chunk, in chunk order, with partNumber = index + 1 and the chunk's etag.
C16_CompleteSendsEveryPart ==
  [][\A r \in RunIds :
       CallsComplete(r) =>
         LET chunks == Find(uploads, runs[r].id).chunks
             sent == runs'[r].sent
         IN  /\ \A j \in 1..Len(chunks) : chunks[j].uploaded
             /\ Len(sent) = Len(chunks)
             /\ \A j \in 1..Len(chunks) :
                  /\ sent[j].partNumber = chunks[j].index + 1
                  /\ sent[j].partNumber = j
                  /\ sent[j].etag = chunks[j].etag]_vars

\* C17: while the completing flag of a record is set, no user control
\* (per-row pause, resume, cancel, "Pause all", "Resume all") changes its
\* status.
C17_CompletingBlocksControls ==
  [][clicks' < clicks =>
       \A k \in 1..Len(uploads) :
         uploads[k].completing => uploads'[k].status = uploads[k].status]_vars

\* The files of the batch that a step drops on the dropzone.
Dropped == SubSeq(inbox, 1, Len(inbox) - Len(inbox'))

\* C18: a drop takes every file of the batch that is not over the size limit
\* (a file of exactly MAX_FILE_SIZE_BYTES is not) as long as the count stays
\* within MAX_FILES, pushes one warning or error for each file it does not
\* take, and the count never exceeds MAX_FILES.  (No record awaits a file
\* here, so every file taken is a new record.)
C18_RejectsPerFile ==
  [][inbox' # inbox =>
       LET fits == Len(SelectSeq(Dropped, LAMBDA f : f.size <= MAX_FILE_SIZE_BYTES))
           taken == Len(uploads') - Len(uploads)
           warnings == Len(SelectSeq(pushed', LAMBDA w :
                                         w.severity \in {"warning", "error"}))
       IN  /\ Len(uploads') <= MAX_FILES
           /\ taken = Min(fits, MAX_FILES - Len(uploads))
           /\ warnings = Len(Dropped) - taken]_vars

\* C19: a file dropped on the dropzone (within the limits of C18) whose
\* name and size are those of a record awaiting its file, and whose
\* last-modified time is the record's when the record has one, is attached
\* to the first such record: the record gets the file and status "queued",
\* keeps id, uploadId, chunks and uploadedBytes, and the list gets no new
\* record.  Any other file adds exactly one queued record with progress 0
\* and no chunks.  No other record changes.
C19_AttachOrCreate ==
  [][inbox' # inbox =>
       LET f == Head(Dropped)
           match == {k \in 1..Len(uploads) :
                       /\ uploads[k].status = "awaiting-file"
                       /\ uploads[k].fileName = f.name
                       /\ uploads[k].fileSize = f.size
                       /\ (uploads[k].fileLastModified # Undefined
                             => uploads[k].fileLastModified = f.lastModified)}
       IN  IF match # {}
           THEN LET k == CHOOSE i \in match : \A j \in match : i <= j
                IN  /\ Len(uploads') = Len(uploads)
                    /\ uploads'[k].file = <<f>>
                    /\ uploads'[k].status = "queued"
                    /\ uploads'[k].id = uploads[k].id
                    /\ uploads'[k].uploadId = uploads[k].uploadId
                    /\ uploads'[k].chunks = uploads[k].chunks
                    /\ uploads'[k].uploadedBytes = uploads[k].uploadedBytes
                    /\ \A j \in 1..Len(uploads) : j # k => uploads'[j] = uploads[j]
           ELSE /\ Len(uploads') = Len(uploads) + 1
                /\ SubSeq(uploads', 1, Len(uploads)) = uploads
                /\ LET new == uploads'[Len(uploads')]
                   IN  /\ new.id \notin Ids(uploads)
                       /\ new.file = <<f>>
                       /\ new.status = "queued"
                       /\ new.progress = Pct0
                       /\ new.uploadedBytes = 0
                       /\ new.chunks = << >>]_vars

\* A dropped file has just been attached to the second of two records that
\* await a file of its name: the first one has another size.
C19_Witness ==
  /\ dirty
  /\ Len(uploads) = 2
  /\ uploads[1].status = "awaiting-file"
  /\ uploads[1].fileName = uploads[2].fileName
  /\ uploads[1].fileSize # uploads[2].fileSize
  /\ uploads[2].status = "queued"
  /\ uploads[2].file # << >>
  /\ uploads[2].uploadId # ""
  /\ uploads[2].uploadedBytes > 0
  /\ pushed = <<Snack("info", uploads[2].fileName)>>

\* C20: the answer f to the file selection of a record puts f and status
\* "queued" on that record when name and size of f are the record's,
\* whatever the last-modified time of f; otherwise no record changes and an
\* error is pushed.  The other records never change.
C20_RecoverOnlyOnMatch ==
  [][(picker' # picker /\ picker' \subseteq picker /\ dirty') =>
       LET id == chosen'[1].id
           f == chosen'[1].file
           u == Find(uploads, id)
       IN  /\ \A k \in 1..Len(uploads) :
                uploads[k].id # id => uploads'[k] = uploads[k]
           /\ Len(uploads') = Len(uploads)
           /\ (u.fileName = f.name /\ u.fileSize = f.size)
                => /\ Find(uploads', id).file = <<f>>
                   /\ Find(uploads', id).status = "queued"
           /\ (u.fileName # f.name \/ u.fileSize # f.size)
                => /\ uploads' = uploads
                   /\ \E k \in 1..Len(pushed') : pushed'[k].severity = "error"]_vars

\* A record that awaited its file has been given, by a file selection, a
\* file of its name and size with another last-modified time than the one
\* the snapshot records.
C20_Witness ==
  /\ dirty
  /\ chosen # << >>
  /\ \E k \in 1..Len(uploads) :
       /\ uploads[k].id = chosen[1].id
       /\ uploads[k].file = <<chosen[1].file>>
       /\ uploads[k].status = "queued"
       /\ \E p \in 1..Len(store) :
            /\ store[p].id = chosen[1].id
            /\ store[p].status = "awaiting-file"
            /\ store[p].fileLastModified \notin {Undefined, chosen[1].file.lastModified}

\* The positions of the records that a step takes to "uploading".
Promoted ==
  {k \in 1..Len(uploads) :
     uploads[k].status # "uploading" /\ uploads'[k].status = "uploading"}

\* C21: the commit of a changed record list promotes the first n queued
\* records that have a file, in list order, where n is the smaller of the
\* free slots (MAX_PARALLEL_FILES minus the records uploading) and the
\* number of such records; no other step takes a record to "uploading", so
\* a queued record waits until a slot is free.
C21_PromotesFirstQueued ==
  [][LET queued == {k \in 1..Len(uploads) :
                      uploads[k].status = "queued" /\ uploads[k].file # << >>}
         free == MAX_PARALLEL_FILES - Cardinality(Uploading(uploads))
         n == IF uploadsRef' # uploadsRef
              THEN Min(IF free < 0 THEN 0 ELSE free, Cardinality(queued))
              ELSE 0
     IN  Promoted = {k \in queued : Cardinality({j \in queued : j < k}) < n}]_vars

\* More files than slots have been dropped in one batch and the list has
\* just been committed: the first MAX_PARALLEL_FILES records are uploading
\* and the last one is still queued with its file.
C21_Witness ==
  /\ Len(uploads) = ParFiles
  /\ \A k \in 1..Len(uploadsRef) : uploadsRef[k].status = "queued"
  /\ \A k \in 1..MAX_PARALLEL_FILES : uploads[k].status = "uploading"
  /\ uploads[ParFiles].status = "queued"
  /\ uploads[ParFiles].file # << >>
  /\ Len(runs) = MAX_PARALLEL_FILES

\* The records that the snapshot has to hold.
Unfinished ==
  SelectSeq(uploads, LAMBDA u : u.status # "done" /\ u.status # "canceled")

Changed ==
  {uploads[k].id : k \in {j \in 1..Len(uploads) : uploads'[j] # uploads[j]}}

\* C23: a step of one file's pipeline (a failure included) changes no record
\* of another file; a click on a row's pause, resume or cancel changes at most
\* one record and aborts only runs of that record; and the commit changes other
\* records only by promoting queued records to "uploading".
C23_OtherRecordsUntouched ==
  [][/\ \A r \in RunIds :
          (clicks' = clicks /\ runs'[r] # runs[r]) => Changed \subseteq {runs[r].id}
     /\ clicks' < clicks =>
          /\ Cardinality(Changed) <= 1
          /\ \A r \in RunIds : runs'[r] # runs[r] => runs[r].id \in Changed
     /\ uploadsRef' # uploadsRef =>
          \A k \in 1..Len(uploads) :
            \/ uploads'[k] = uploads[k]
            \/ /\ uploads[k].status = "queued"
               /\ uploads'[k] = [uploads[k] EXCEPT !.status = "uploading", !.error = ""]]_vars

\* One file has failed while the other, with a chunk uploaded, is still
\* uploading with no error.
C23_Witness ==
  /\ Len(uploads) = 2
  /\ uploads[1].status = "error"
  /\ uploads[1].error # ""
  /\ faults < PairFaults
  /\ uploads[2].status = "uploading"
  /\ uploads[2].error = ""
  /\ uploads[2].uploadedBytes > 0
  /\ \E r \in RunsOf(uploads[2].id) : runs[r].pc = "put"

\* C24: a record the user has paused or canceled keeps that status and its
\* error field, whatever its pipeline does afterwards (the status check of
\* the chunk loop, a failing attempt, a late response), until the user acts
\* on it again; and a paused record has no error message.
C24_UserStopIsNoError ==
  [][/\ \A k \in 1..Len(uploads) :
          (uploads[k].status \in {"paused", "canceled"} /\ clicks' = clicks
             /\ reloads' = reloads)
            => /\ uploads'[k].status = uploads[k].status
               /\ uploads'[k].error = uploads[k].error
     /\ \A k \in 1..Len(uploads') :
          uploads'[k].status = "paused" => uploads'[k].error = ""]_vars

\* The pipeline of a record the user has paused or canceled has stopped on
\* a failed attempt: the catch block has seen the error and has left the
\* record as the user put it.
C24_Witness ==
  \E k \in 1..Len(uploads) : \E r \in RunsOf(uploads[k].id) :
    /\ uploads[k].status \in {"paused", "canceled"}
    /\ uploads[k].error = ""
    /\ runs[r].pc = "end"
    /\ runs[r].result = "user"
    /\ runs[r].err # ""
    /\ runs[r].lastErr # ""

\* The messages of the two admission errors (lines 1137-1144).
AdmissionErrors ==
  {"Server rejected this file", "Insufficient quota to upload this file"}

\* The runs to which a step delivers an initiate response that refuses the
\* file.
Rejecting ==
  {r \in RunIds : /\ runs[r].pc = "initiated"
                  /\ runs[r].reply \in {"denied", "quota"}
                  /\ runs'[r] # runs[r]
                  /\ faults' = faults}

\* A run that has ended on an admission error makes no further call.
RejectedRunsStay ==
  \A r \in RunIds :
    (runs[r].pc = "end" /\ runs[r].err \in AdmissionErrors) => runs'[r] = runs[r]

\* C25: an initiate response with allowed = false, or with remainingBytes
\* below the file size, ends the run at once (no retry, no part-url request,
\* PUT or complete call), stores no uploadId and no chunks, and puts the
\* record in status "error" with the message.
C25_RejectionIsFatal ==
  [][/\ RejectedRunsStay
     /\ \A r \in Rejecting :
       LET id == runs[r].id
       IN  /\ Len(runs') = Len(runs)
           /\ runs'[r].pc = "end"
           /\ runs'[r].err \in AdmissionErrors
           /\ Find(uploads', id).uploadId = Find(uploads, id).uploadId
           /\ Find(uploads', id).chunks = Find(uploads, id).chunks
           /\ Find(uploads', id).status = "error"
           /\ Find(uploads', id).error = runs'[r].err]_vars

\* C25 as the code has it: the same, except that a record the user has
\* paused or canceled in the meantime is left as it is.
C25_RejectionIsFatalUnlessUserStopped ==
  [][/\ RejectedRunsStay
     /\ \A r \in Rejecting :
       LET id == runs[r].id
       IN  /\ Len(runs') = Len(runs)
           /\ runs'[r].pc = "end"
           /\ runs'[r].err \in AdmissionErrors
           /\ Find(uploads', id).uploadId = Find(uploads, id).uploadId
           /\ Find(uploads', id).chunks = Find(uploads, id).chunks
           /\ IF Find(uploads, id).status \in {"paused", "canceled"}
              THEN Find(uploads', id) = Find(uploads, id)
              ELSE /\ Find(uploads', id).status = "error"
                   /\ Find(uploads', id).error = runs'[r].err]_vars

\* The backend has refused the file for its quota: the record is in error
\* with that message, without uploadId or chunks, and its only run has ended
\* before any part was asked for.
C25_Witness ==
  /\ Len(uploads) = 1
  /\ Len(runs) = 1
  /\ uploads[1].status = "error"
  /\ uploads[1].error = "Insufficient quota to upload this file"
  /\ uploads[1].uploadId = ""
  /\ uploads[1].chunks = << >>
  /\ runs[1].pc = "end"
  /\ runs[1].result = "error"
  /\ srv[uploads[1].fileName] = {}


-----------------------------------------------------------------------------
(* statusLabel, the text of a row's status.                                *)

\* type UploadStatus.
UploadStatus ==
  {"queued", "uploading", "paused", "done", "error", "canceled",
   "awaiting-file"}

\* The optional parameter completing: a boolean, or left out.
Completing == {"true", "false", "undefined"}

Truthy(completing) == completing = "true"

statusLabelOfStatusOnly(status, completing) ==
  CASE status = "queued" -> "Queued"
    [] status = "uploading" -> "Uploading..."
    [] status = "paused" -> "Paused"
    [] status = "done" -> "Done"
    [] status = "error" -> "Error"
    [] status = "canceled" -> "Canceled"
    [] status = "awaiting-file" -> "Waiting for file..."
    [] OTHER -> status

\* statusLabel; "..." stands for the one character U+2026 of the source.
statusLabel(status, completing) ==
  CASE status = "queued" -> "Queued"
    [] status = "uploading" ->
         IF Truthy(completing) THEN "Finalizing..." ELSE "Uploading..."
    [] status = "paused" -> "Paused"
    [] status = "done" -> "Done"
    [] status = "error" -> "Error"
    [] status = "canceled" -> "Canceled"
    [] status = "awaiting-file" -> "Waiting for file..."
    [] OTHER -> status

\* The status values that are no UploadStatus (the switch's default branch):
\* the one of the source's test, the empty string, and a label.
OtherStatuses == {"weird-state", "", "Queued"}

LabelRows == 2

LabelInputs == [status : UploadStatus \cup OtherStatuses, completing : Completing]

\* UploadRow's status text, one row after the other.
RenderRow ==
  /\ Len(plan.out) < Len(plan.rows)
  /\ LET row == plan.rows[Len(plan.out) + 1]
     IN  plan' = [plan EXCEPT
                    !.out = Append(@, statusLabel(row.status, row.completing))]
  /\ UNCHANGED <<chosen, deletes, picker, pushed, uploads, uploadsRef, dirty, store,
                 runs, srv, inbox, clicks, faults, reloads>>

\* statusLabel alone, on every list of at most LabelRows inputs.
LabelInit ==
  /\ Idle
  /\ dirty = FALSE /\ store = << >> /\ runs = << >>
  /\ srv = NoParts /\ inbox = << >>
  /\ clicks = 0 /\ faults = 0 /\ reloads = 0
  /\ pushed = << >> /\ picker = {} /\ chosen = << >>
  /\ deletes = NoDeletes
  /\ \E n \in 1..LabelRows :
       plan \in [rows : [1..n -> LabelInputs], out : {<< >>}]

LabelNext == RenderRow

SpecLabel == LabelInit /\ [][LabelNext]_vars

\* C26: the label of each of the seven statuses is its fixed text whatever
\* completing is, except that "uploading" reads "Finalizing..." when
\* completing is true and "Uploading..." otherwise; any other status value
\* is returned unchanged.
C26_LabelTable ==
  \A k \in 1..Len(plan.out) :
    LET status == plan.rows[k].status
        completing == plan.rows[k].completing
        label == plan.out[k]
    IN  /\ status = "queued" => label = "Queued"
        /\ status = "paused" => label = "Paused"
        /\ status = "done" => label = "Done"
        /\ status = "error" => label = "Error"
        /\ status = "canceled" => label = "Canceled"
        /\ status = "awaiting-file" => label = "Waiting for file..."
        /\ status = "uploading" /\ completing = "true" =>
             label = "Finalizing..."
        /\ status = "uploading" /\ completing # "true" =>
             label = "Uploading..."
        /\ status \notin UploadStatus => label = status

\* A finalizing row and a row of an unknown status have been rendered.
C26_Witness ==
  /\ Len(plan.out) = 2
  /\ plan.rows[1] = [status |-> "uploading", completing |-> "true"]
  /\ plan.out[1] = "Finalizing..."
  /\ plan.rows[2].status = "weird-state"
  /\ plan.out[2] = "weird-state"

-----------------------------------------------------------------------------
(* The backoff between the attempts of a chunk.                            *)

\* The step in which the PUT of run r succeeds: the response carries an
\* etag and the chunk is marked uploaded.
ChunkSucceeds(r) ==
  /\ r \in RunIds
  /\ r <= Len(runs')
  /\ runs[r].pc = "put"
  /\ runs'[r].pc # "put"
  /\ faults' = faults

\* The step in which run r calls sleep.
CallsSleep(r) ==
  /\ r \in RunIds
  /\ r <= Len(runs')
  /\ runs[r].pc # "backoff"
  /\ runs'[r].pc = "backoff"

\* C27: a chunk whose attempts fail k times and then succeed has had exactly
\* k + 1 attempts and k delays, with 0 <= k <= CHUNK_MAX_RETRIES, and its run
\* goes on; no delay precedes the first attempt; the delay before retry
\* number n is at least 800 * 2^(n-1) and less than 800 * 2^(n-1) + 250
\* milliseconds.
C27_AttemptsAndDelays ==
  [][\A r \in RunIds :
       /\ ChunkSucceeds(r) =>
            LET k == runs[r].fails
            IN  /\ k \in 0..CHUNK_MAX_RETRIES
                /\ runs[r].tries = k + 1
                /\ runs[r].sleeps = k
                /\ runs'[r].result # "error"
       /\ CallsSleep(r) =>
            LET n == runs'[r].sleeps
                least == 800 * Pow2(n - 1)
            IN  /\ n \in 1..CHUNK_MAX_RETRIES
                /\ n = runs[r].tries
                /\ least <= runs'[r].delay
                /\ runs'[r].delay < least + 250
       /\ (r <= Len(runs') /\ runs'[r].pc \in {"parturl", "put"}
             /\ runs'[r].tries = 1) => runs'[r].sleeps = 0]_vars

\* A file is done whose last chunk failed three times and then succeeded:
\* four attempts and three delays.
C27_Witness ==
  \E r \in RunIds :
    /\ runs[r].result = "done"
    /\ runs[r].fails = 3 /\ runs[r].tries = 4 /\ runs[r].sleeps = 3
    /\ Find(uploads, runs[r].id).status = "done"

-----------------------------------------------------------------------------
(* The etag of a PUT response.                                             *)

\* The step in which the PUT of run r returns a successful response that
\* carries no etag.
NoEtagReturns(r) ==
  /\ r \in RunIds
  /\ r <= Len(runs')
  /\ runs[r].pc = "put"
  /\ runs'[r] # runs[r]
  /\ faults' < faults
  /\ clicks' = clicks
  /\ runs'[r].lastErr = "noetag"

\* The step in which the response of the initiate endpoint reaches a run of
\* record id (the chunk list is then built from the backend's parts).
InitiateArrives(id) ==
  \E r \in RunsOf(id) :
    r <= Len(runs') /\ runs[r].pc = "initiated" /\ runs'[r].pc # "initiated"

\* The chunks of record id that a step marks uploaded.
Marked(id) ==
  LET before == Find(uploads, id).chunks
      after == Find(uploads', id).chunks
  IN  IF id \in Ids(uploads') /\ Len(after) = Len(before)
      THEN {j \in 1..Len(before) : ~before[j].uploaded /\ after[j].uploaded}
      ELSE {}

\* C28: in the chunk loop a chunk is marked uploaded only by a PUT response
\* that carries an etag; a successful response without an etag leaves the
\* chunk not uploaded, counts as a failed attempt, and is retried (after a
\* backoff) while attempts are left and ends the run otherwise, as a
\* transient error is.
C28_NoEtagIsFailure ==
  [][/\ \A r \in RunIds :
          NoEtagReturns(r) =>
            LET id == runs[r].id
                index == runs[r].chunkMeta.index
            IN  /\ Find(uploads', id).chunks = Find(uploads, id).chunks
                /\ ~ChunkOf(uploads, id, index).uploaded =>
                     ~ChunkOf(uploads', id, index).uploaded
                /\ runs'[r].fails = runs[r].fails + 1
                /\ IF runs[r].attempt < CHUNK_MAX_RETRIES
                   THEN /\ runs'[r].pc = "backoff"
                        /\ runs'[r].attempt = runs[r].attempt
                   ELSE /\ runs'[r].pc = "end"
                        /\ runs'[r].result # "done"
     /\ \A id \in Ids(uploads) :
          ~InitiateArrives(id) =>
            \A j \in Marked(id) :
              /\ Find(uploads', id).chunks[j].etag # Undefined
              /\ \E r \in RunsOf(id) :
                   /\ ChunkSucceeds(r)
                   /\ runs[r].chunkMeta.index = Find(uploads, id).chunks[j].index]_vars

\* A PUT was answered without an etag: the backend holds the part, the chunk
\* is not marked, and the run sleeps before its next attempt.
C28_Witness ==
  \E r \in RunIds :
    /\ runs[r].pc = "backoff"
    /\ runs[r].lastErr = "noetag"
    /\ runs[r].fails = 1
    /\ LET u == Find(uploads, runs[r].id)
       IN  /\ (runs[r].chunkMeta.index + 1) \in srv[u.fileName]
           /\ ~ChunkOf(uploads, runs[r].id, runs[r].chunkMeta.index).uploaded

-----------------------------------------------------------------------------
(* The presigned url of an attempt.                                        *)

\* The step in which run r sends a PUT.
SendsPut(r) ==
  /\ r \in RunIds
  /\ r <= Len(runs')
  /\ runs[r].pc # "put"
  /\ runs'[r].pc = "put"

\* The step in which run r begins an attempt (a pass through the try block).
BeginsAttempt(r) ==
  /\ r \in RunIds
  /\ r <= Len(runs')
  /\ runs'[r].pc # "end"
  /\ runs'[r].tries # runs[r].tries \/ runs'[r].i # runs[r].i

\* C29: every attempt of a chunk, the first and each retry, begins with a
\* part-url request for the chunk's part number, and its PUT is sent with
\* the url that this request returned: the url of request number n of the
\* chunk is used by attempt number n and by no other.
C29_UrlPerAttempt ==
  [][\A r \in RunIds :
       /\ BeginsAttempt(r) =>
            /\ runs'[r].pc = "parturl"
            /\ runs'[r].req = runs'[r].chunkMeta.index + 1
            /\ runs'[r].url = NoUrl
            /\ runs'[r].tries = runs'[r].attempt + 1
       /\ SendsPut(r) =>
            /\ runs[r].pc = "parturl"
            /\ runs[r].req = runs[r].chunkMeta.index + 1
            /\ runs'[r].chunkMeta = runs[r].chunkMeta
            /\ runs'[r].tries = runs[r].tries
            /\ runs'[r].url = [partNumber |-> runs[r].chunkMeta.index + 1,
                               request |-> runs[r].tries]
       /\ (r <= Len(runs') /\ runs[r].pc = "put" /\ runs'[r].pc = "put") =>
            /\ runs'[r].url = runs[r].url
            /\ runs'[r].tries = runs[r].tries]_vars

\* The PUT of the second attempt of part 1 is in flight with the url of the
\* chunk's second request.
C29_Witness ==
  \E r \in RunIds :
    /\ runs[r].pc = "put"
    /\ runs[r].attempt = 1
    /\ runs[r].url = [partNumber |-> 1, request |-> 2]

-----------------------------------------------------------------------------
(* The multipart session of a record.                                      *)

\* The boundaries of a chunk list.
Boundaries(chunks) ==
  [j \in 1..Len(chunks) |->
     [index |-> chunks[j].index, start |-> chunks[j].start, end |-> chunks[j].end]]

\* The step in which a run of record id receives a successful response of
\* the initiate endpoint and stores the session.
InitiateSucceeds(id) ==
  \E r \in RunsOf(id) :
    /\ r <= Len(runs')
    /\ runs[r].pc = "initiated"
    /\ runs'[r].pc = "chunks"

\* The step in which a run of record id calls the initiate endpoint.
CallsInitiate(id) ==
  \E r \in 1..Len(runs') :
    /\ runs'[r].id = id
    /\ runs'[r].pc = "init"
    /\ r \in RunIds => runs[r].pc # "init"

\* C30: once a record has a session id and a non-empty chunk list, no run
\* calls the initiate endpoint for it, no response of the initiate endpoint
\* is stored on it, and its session id, its chunk size and its chunk list
\* are not replaced.
C30_SessionIsInitiatedOnce ==
  [][\A k \in 1..Len(uploads) :
       (/\ uploads[k].uploadId # ""
        /\ Len(uploads[k].chunks) > 0
        /\ k <= Len(uploads')
        /\ uploads'[k].id = uploads[k].id) =>
         /\ ~CallsInitiate(uploads[k].id)
         /\ ~InitiateSucceeds(uploads[k].id)
         /\ uploads'[k].uploadId = uploads[k].uploadId
         /\ uploads'[k].chunkSize = uploads[k].chunkSize
         /\ Boundaries(uploads'[k].chunks) = Boundaries(uploads[k].chunks)]_vars

-----------------------------------------------------------------------------
(* The etags of the chunks.                                                *)

\* C31: every chunk of every record has an etag exactly when it is marked
\* uploaded, the chunks marked from the backend's alreadyUploadedParts at
\* the initiation included.
C31_EtagIffUploaded ==
  \A k \in 1..Len(uploads) :
    \A j \in 1..Len(uploads[k].chunks) :
      uploads[k].chunks[j].uploaded <=> uploads[k].chunks[j].etag # Undefined

-----------------------------------------------------------------------------
(* Cancel and the DELETE of the session.                                   *)

\* The step in which the user cancels record id.
Cancels(id) ==
  /\ clicks' < clicks
  /\ id \in Ids(uploads) /\ id \in Ids(uploads')
  /\ Find(uploads, id).status # "canceled"
  /\ Find(uploads', id).status = "canceled"

\* The DELETE requests of a cancel step of record id: one for the record's
\* session when it has one, none otherwise.
OneDelete(id) ==
  LET u == Find(uploads, id)
  IN  IF u.uploadId # ""
      THEN deletes' = [deletes EXCEPT ![u.uploadId] = @ + 1]
      ELSE deletes' = deletes /\ faults' = faults

OthersUnchanged(id) ==
  /\ Len(uploads') = Len(uploads)
  /\ \A k \in 1..Len(uploads) : uploads[k].id # id => uploads'[k] = uploads[k]

\* C32 as stated: a cancel sets the status "canceled" and sends one DELETE
\* when the record has a session id; whether the DELETE succeeds or fails
\* the record is "canceled" with no error message, and no other record
\* changes.
C32_CancelIsQuiet ==
  [][\A id \in Ids(uploads) :
       Cancels(id) =>
         /\ OneDelete(id)
         /\ Find(uploads', id).error = ""
         /\ OthersUnchanged(id)]_vars

\* C32, amended: the cancel and its DELETE add no error message; the record
\* keeps the message it had (a record canceled from "error" has one).
C32_CancelAddsNoError ==
  [][\A id \in Ids(uploads) :
       Cancels(id) =>
         /\ OneDelete(id)
         /\ Find(uploads', id).error = Find(uploads, id).error
         /\ Find(uploads, id).status # "error" => Find(uploads', id).error = ""
         /\ OthersUnchanged(id)]_vars

\* A record with a session has been canceled, its DELETE has failed (the
\* backend still holds a part), and the record is "canceled" with no
\* error message.
C32_Witness ==
  \E k \in 1..Len(uploads) :
    /\ uploads[k].status = "canceled"
    /\ uploads[k].uploadId # ""
    /\ deletes[uploads[k].uploadId] = 1
    /\ srv[uploads[k].fileName] # {}
    /\ faults < SpecFaults
    /\ uploads[k].error = ""

-----------------------------------------------------------------------------
(* The watchdogs of an attempt.                                            *)

\* The step in which a watchdog aborts the PUT of run r.
WatchdogAborts(r) ==
  /\ r \in RunIds
  /\ r <= Len(runs')
  /\ runs[r].pc = "put"
  /\ runs'[r].pc # "put"
  /\ runs'[r].fails = runs[r].fails + 1

\* C33: the PUT of an attempt is aborted by the stall watchdog only after
\* more than STALL_TIMEOUT_MS without a progress event, however young the
\* attempt is, and by the hard timeout only REQUEST_TIMEOUT_MS after the
\* attempt's watchdogs were armed, however recent the last progress event
\* is; no PUT outlives either; the abort ends that attempt only, and the
\* attempt is retried after a backoff unless it was the last one the
\* attempt bound allows, in which case the run ends.
C33_WatchdogsAbortAndRetry ==
  [][\A r \in RunIds :
       /\ WatchdogAborts(r) =>
            /\ runs'[r].lastErr \in {"stall", "timeout"}
            /\ runs'[r].lastErr = "stall" => runs[r].idle > 30000
            /\ runs'[r].lastErr = "timeout" => runs[r].elapsed >= 120000
            /\ \A q \in RunIds \ {r} : q <= Len(runs') /\ runs'[q] = runs[q]
            /\ IF runs[r].attempt < CHUNK_MAX_RETRIES
               THEN /\ runs'[r].pc = "backoff"
                    /\ runs'[r].attempt = runs[r].attempt
                    /\ runs'[r].i = runs[r].i
                    /\ uploads' = uploads
               ELSE /\ runs'[r].pc = "end"
                    /\ runs'[r].result # "done"
       /\ (r <= Len(runs') /\ runs'[r].pc = "put") =>
            /\ runs'[r].elapsed <= 120000
            /\ runs'[r].idle <= 30000 + STALL_CHECK_MS]_vars

\* After an attempt that stalled, the second attempt was aborted by the hard
\* timeout while progress events were still coming, and is retried.
C33_Witness ==
  \E r \in RunIds :
    /\ runs[r].pc = "backoff"
    /\ runs[r].attempt = 1
    /\ runs[r].lastErr = "timeout"
    /\ runs[r].elapsed = 120000
    /\ runs[r].idle <= 30000
    /\ runs[r].stallTimers = 2

-----------------------------------------------------------------------------
(* The loop of buildChunks, iteration by iteration, on the chunk sizes     *)
(* that ensureUploadSession can pass.                                      *)

\* The chunkSize field of an initiate response ranges over
\* -LoopMaxNegative..LoopMaxChunk (0 also stands for a response without the
\* field); the loop is followed for LoopMaxIterations iterations.
LoopMaxNegative == 2
LoopMaxChunk == 3
LoopMaxIterations == 9

\* init.chunkSize || DEFAULT_CHUNK_SIZE (line 1147).
ChunkSizeOf(dictated) == IF dictated = 0 THEN DEFAULT_CHUNK_SIZE ELSE dictated

\* ensureUploadSession calls buildChunks (lines 1147-1153): the state of
\* the call before the first test of the loop.
LoopInit ==
  /\ Idle
  /\ dirty = FALSE /\ store = << >> /\ runs = << >>
  /\ srv = NoParts /\ inbox = << >>
  /\ clicks = 0 /\ faults = 0 /\ reloads = 0
  /\ pushed = << >> /\ picker = {} /\ chosen = << >>
  /\ deletes = NoDeletes
  /\ \E size \in 0..PlanMaxSize : \E dictated \in (0 - LoopMaxNegative)..LoopMaxChunk :
       plan = [size |-> size, chunkSize |-> ChunkSizeOf(dictated),
               start |-> 0, index |-> 0, chunks |-> << >>, pc |-> "for"]

\* One iteration of the loop (lines 417-426), no part being uploaded yet.
LoopIteration ==
  /\ plan.pc = "for"
  /\ plan.start < plan.size
  /\ plan.index < LoopMaxIterations
  /\ LET end == Min(plan.start + plan.chunkSize, plan.size)
     IN  plan' = [plan EXCEPT
                    !.chunks = Append(@, [index |-> plan.index, start |-> plan.start,
                                          end |-> end, uploaded |-> FALSE,
                                          etag |-> Undefined]),
                    !.index = @ + 1,
                    !.start = @ + plan.chunkSize]
  /\ UNCHANGED <<chosen, deletes, picker, pushed, uploads, uploadsRef, dirty, store,
                 runs, srv, inbox, clicks, faults, reloads>>

\* The test of the loop fails and the list is returned (line 427).
LoopReturns ==
  /\ plan.pc = "for"
  /\ ~(plan.start < plan.size)
  /\ plan' = [plan EXCEPT !.pc = "returned"]
  /\ UNCHANGED <<chosen, deletes, picker, pushed, uploads, uploadsRef, dirty, store,
                 runs, srv, inbox, clicks, faults, reloads>>

LoopNext == LoopIteration \/ LoopReturns

SpecLoop == LoopInit /\ [][LoopNext]_vars /\ WF_vars(LoopNext)

\* C34: buildChunks returns its chunk list for every file size and every
\* chunk size that the initiation can pass to it.
C34_BuildChunksReturns == <>(plan.pc = "returned")

-----------------------------------------------------------------------------
(* The final statuses.                                                     *)

\* C35: a record that is "done" or "canceled" keeps its status.
C35_DoneAndCanceledAreFinal ==
  [][\A id \in Ids(uploads) :
       (Find(uploads, id).status \in {"done", "canceled"} /\ id \in Ids(uploads')) =>
         Find(uploads', id).status = Find(uploads, id).status]_vars

\* ---------------------------------------------------------------------------
\* Live pipelines
\* ---------------------------------------------------------------------------

\* The startFileUpload runs of a record that have not returned yet.
LiveRunsOf(id) == {r \in RunsOf(id) : Live(r)}

\* The records that have a run of startFileUpload alive.
WithLivePipeline == {id \in Ids(uploads) : LiveRunsOf(id) # {}}

\* C36: at most MAX_PARALLEL_FILES records have a live pipeline, and no
\* record has two live pipelines at once.
C36_PipelinesAreCapped ==
  /\ Cardinality(WithLivePipeline) <= MAX_PARALLEL_FILES
  /\ \A id \in Ids(uploads) : Cardinality(LiveRunsOf(id)) <= 1

\* ---------------------------------------------------------------------------
\* Calls of the complete endpoint
\* ---------------------------------------------------------------------------

\* The step in which the complete call of run r returns its fileUrl.
CompleteSucceeds(r) ==
  /\ r \in RunIds
  /\ runs[r].pc = "complete"
  /\ runs'[r].pc = "end"
  /\ runs'[r].result = "done"

\* C37: complete is not called for a record that is "paused" or "canceled"
\* at the call, not called after a DELETE was sent for the same session, and
\* succeeds at most once for a record.
C37_CompleteIsGuarded ==
  [][\A r \in RunIds :
       LET u == Find(uploads, runs[r].id)
       IN  /\ CallsComplete(r) =>
                /\ u.status \notin {"paused", "canceled"}
                /\ deletes[Find(uploadsRef, runs[r].id).uploadId] = 0
           /\ CompleteSucceeds(r) => u.fileUrl = ""]_vars

\* ---------------------------------------------------------------------------
\* File handles
\* ---------------------------------------------------------------------------

\* The statuses of a record the page is working on or can work on again.
NeedsFile == {"queued", "uploading", "paused", "error"}

\* The step gives a record the status "awaiting-file" that it did not have.
AssignsAwaitingFile ==
  \E k \in 1..Len(uploads') :
    /\ uploads'[k].status = "awaiting-file"
    /\ uploads'[k].id \in Ids(uploads) =>
         Find(uploads, uploads'[k].id).status # "awaiting-file"

\* C38: a record that is queued, uploading, paused or in error has its
\* file handle, a record without file handle that is neither done nor
\* canceled awaits its file, and only the hydration of a mount gives a
\* record the status "awaiting-file".
C38_FileHandles ==
  /\ [](\A k \in 1..Len(uploads) :
          LET u == uploads[k]
          IN  /\ u.status \in NeedsFile => u.file # << >>
              /\ (u.file = << >> /\ u.status \notin {"done", "canceled"}) =>
                   u.status = "awaiting-file")
  /\ [][AssignsAwaitingFile => reloads' < reloads]_vars

\* A placeholder still awaits its file while another record, given its file
\* in a file selection, is uploading with the handle.
C38_Witness ==
  /\ chosen # << >>
  /\ \E j, k \in 1..Len(uploads) :
       /\ uploads[j].status = "awaiting-file"
       /\ uploads[j].file = << >>
       /\ uploads[k].id = chosen[1].id
       /\ uploads[k].status = "uploading"
       /\ uploads[k].file = <<chosen[1].file>>

\* ---------------------------------------------------------------------------
\* Progress without the user
\* ---------------------------------------------------------------------------

\* Files dropped at once and a user who stops acting: one file of two
\* chunks with up to FairClicks clicks on the buttons of its row and no
\* failing call, the same file with FairFaults failing calls and one click
\* less, or ParFiles files (one more than can upload at a time) and no click.
\* The browser keeps rendering, and every call a run waits for returns
\* (weak fairness for each run): the backend answers, the PUT ends or a
\* watchdog aborts it, a backoff sleep ends.
FairFaults == 1
FairClicks == 2
FairRuns == 4

FairInit ==
  \/ \E c \in 0..FairClicks :
       Scenario(<<File("a", SpecFileSize)>>, {NoParts}, c, 0, 0)
  \/ \E c \in 0..(FairClicks - 1) :
       Scenario(<<File("a", SpecFileSize)>>, {NoParts}, c, FairFaults, 0)
  \/ Scenario(ParInbox, {NoParts}, 0, 0, 0)

\* What run r waits for comes: a response, a microtask, the end of a sleep.
RunContinues(r) ==
  \/ \E withETags \in BOOLEAN :
       \E reply \in {"ok", "denied", "quota"} : ServeInitiate(r, withETags, reply)
  \/ \E outcome \in {"ok"} \cup HttpFailures : InitiateReturns(r, outcome)
  \/ EnterChunks(r)
  \/ \E outcome \in {"ok"} \cup HttpFailures : PartUrlReturns(r, outcome)
  \/ \E outcome \in {"ok"} \cup PutFailures : PutReturns(r, outcome)
  \/ EnterFinalize(r)
  \/ \E outcome \in {"ok"} \cup HttpFailures : CompleteReturns(r, outcome)
  \/ BackoffElapsed(r)

FairNext ==
  \/ Enqueue(Len(inbox))
  \/ Commit
  \/ \E r \in RunIds : RunContinues(r)
  \/ \E r \in RunIds : \E n \in 1..PlanMaxSize : PutProgress(r, n)
  \/ RowStep

SpecFair ==
  /\ FairInit
  /\ [][FairNext]_vars
  /\ WF_vars(Commit)
  /\ \A r \in 1..FairRuns : WF_vars(RunContinues(r))

\* The user has nothing left to do.
UserIsDone == clicks = 0

\* The status of record id, "" while the list has no such record.
StatusOf(id) ==
  IF id \in Ids(uploads) THEN Find(uploads, id).status ELSE ""

\* Record id is queued with its file handle.
QueuedWithFile(id) ==
  /\ StatusOf(id) = "queued"
  /\ Find(uploads, id).file # << >>

RECURSIVE ActiveTimers(_, _)
ActiveTimers(id, r) ==
  IF r > Len(runs) THEN 0
  ELSE (IF runs[r].id = id THEN runs[r].stallTimers + runs[r].hardTimers ELSE 0)
       + ActiveTimers(id, r + 1)

\* C40: a record has at most two active watchdog timers, and none once its
\* pipeline has stopped.
C40_WatchdogsAreCleared ==
  \A id \in Ids(uploads) :
    /\ ActiveTimers(id, 1) <= 2
    /\ LiveRunsOf(id) = {} => ActiveTimers(id, 1) = 0

=============================================================================
